---- MODULE Spec2Model ----
(***************************************************************************)
(* The traffic store of android_proxy_mcp (core/sqlite_store.py) and the   *)
(* traffic tools built on it (tools/traffic_tools.py).                     *)
(*                                                                         *)
(* The backing location is one SQLite file holding the table `traffic`.    *)
(* `exists` says whether the file is there, `db` is the committed content  *)
(* of the table: a set of rows, one record of column values per row.  The  *)
(* column created_at is left out: no code of the repository reads it.      *)
(*                                                                         *)
(* Three specifications share the state:                                   *)
(*   Spec      calls issued one at a time, each handler one action;        *)
(*   ConcSpec  add, clear and traffic_clear cut at their SQL statements    *)
(*             and commits, interleaved between threads and with readers;  *)
(*   QuerySpec query() applied to stores of up to QMaxRows rows.           *)
(***************************************************************************)
EXTENDS Integers, Sequences, FiniteSets, TLC

\* ---------------------------------------------------------------- bounds

MaxId == 3
MaxTs == 3
\* max_size of the store objects of the model (the code's default is 2000).
MaxSize == 2
\* Rows of the largest store QuerySpec starts from.
QMaxRows == 12
\* The cap of query()'s limit.
QueryMaxLimit == 10
\* The greatest offset and length read_body is called with.
MaxOffset == 4
\* The calls after which a chunked read of a body is given up.
MaxCalls == 8
\* The responses the capture process sees in one session.
MaxCaptured == 3
\* The length of the longest status filter put together from an alphabet.
MaxPattern == 3

Ids == 1..MaxId
Timestamps == 1..MaxTs

Min(a, b) == IF a <= b THEN a ELSE b
Max(a, b) == IF a >= b THEN a ELSE b

\* Python's None / SQL NULL, and a present value.
None == <<>>
Some(x) == <<x>>

\* ------------------------------------------------------------- records

EmptyDict == [k \in {} |-> ""]

\* A text the SQL statements read character by character (url, domain,
\* method, resource_type, header names and values) is the sequence of its
\* characters.

\* "GET", "POST"
MethodGet == <<"G", "E", "T">>
MethodPost == <<"P", "O", "S", "T">>
\* "XHR", "Other"
TypeXhr == <<"X", "H", "R">>
TypeOther == <<"O", "t", "h", "e", "r">>
\* "api.example.com", "example.com"
DomainApi == <<"a", "p", "i", ".", "e", "x", "a", "m", "p", "l", "e", ".", "c", "o", "m">>
DomainBare == <<"e", "x", "a", "m", "p", "l", "e", ".", "c", "o", "m">>
\* "http://api.example.com/Token", "http://example.com/a%c"
UrlApi == <<"h", "t", "t", "p", ":", "/", "/", "a", "p", "i", ".", "e", "x", "a", "m", "p", "l", "e", ".", "c", "o", "m", "/", "T", "o", "k", "e", "n">>
UrlBare == <<"h", "t", "t", "p", ":", "/", "/", "e", "x", "a", "m", "p", "l", "e", ".", "c", "o", "m", "/", "a", "%", "c">>
\* "accept", "json", "host", "ctype", "text"
HAccept == <<"a", "c", "c", "e", "p", "t">>
HJson == <<"j", "s", "o", "n">>
HHost == <<"h", "o", "s", "t">>
HCtype == <<"c", "t", "y", "p", "e">>
HText == <<"t", "e", "x", "t">>

\* The fields of a TrafficRecord other than id and timestamp: two captured
\* transactions, one answered and one failed.
PayloadA ==
    [method |-> MethodGet, url |-> UrlApi, domain |-> DomainApi,
     status |-> 200, resource_type |-> TypeXhr, size |-> 4, time_ms |-> 5,
     request_headers |-> (HAccept :> HJson) @@ (HHost :> DomainApi),
     request_body |-> None, request_body_size |-> 0,
     response_headers |-> (HCtype :> HJson),
     response_body |-> Some(<<123, 195, 169, 125>>),
     timing |-> [requestTime |-> 1, sendEnd |-> 2, total |-> 5],
     error |-> None]

PayloadB ==
    [method |-> MethodPost, url |-> UrlBare, domain |-> DomainBare,
     status |-> 0, resource_type |-> TypeOther, size |-> 0, time_ms |-> 3,
     request_headers |-> (HCtype :> HText),
     request_body |-> Some(<<104, 105>>), request_body_size |-> 2,
     response_headers |-> EmptyDict,
     response_body |-> None,
     timing |-> [total |-> 3],
     error |-> Some("timeout")]

Payloads == {PayloadA, PayloadB}

TrafficRecord(id, ts, p) ==
    [id |-> id, timestamp |-> ts,
     method |-> p.method, url |-> p.url, domain |-> p.domain,
     status |-> p.status, resource_type |-> p.resource_type,
     size |-> p.size, time_ms |-> p.time_ms,
     request_headers |-> p.request_headers,
     request_body |-> p.request_body,
     request_body_size |-> p.request_body_size,
     response_headers |-> p.response_headers,
     response_body |-> p.response_body,
     timing |-> p.timing,
     error |-> p.error]

\* The transaction captured under id i at time ts.
PayloadFor(i, ts) == IF (i + ts) % 2 = 0 THEN PayloadA ELSE PayloadB

\* The records add() is called with.
Records == {TrafficRecord(i, ts, PayloadFor(i, ts)) : i \in Ids, ts \in Timestamps}

\* ---------------------------------------------------------------- JSON

RECURSIVE Members(_, _)
\* The members of object d over the keys ks, in some order of the keys.
Members(d, ks) ==
    IF ks = {} THEN <<>>
    ELSE LET k == CHOOSE x \in ks : TRUE
         IN  <<<<k, d[k]>>>> \o Members(d, ks \ {k})

\* json.dumps of a str-keyed dict: the text of the object, member by member.
JsonDumps(d) == Members(d, DOMAIN d)

\* json.loads of the text of an object: a later member wins over an earlier
\* one of the same name.
JsonLoads(text) ==
    LET keys == {text[i][1] : i \in 1..Len(text)}
        last(k) == CHOOSE i \in 1..Len(text) :
                      /\ text[i][1] = k
                      /\ \A j \in 1..Len(text) : text[j][1] = k => j <= i
    IN  [k \in keys |-> text[last(k)][2]]

\* The text "{}".
EmptyObjectText == <<>>

\* `col or "{}"`: the column's text, "{}" for NULL.
OrEmptyObject(col) == IF col = None THEN EmptyObjectText ELSE col[1]

\* `col or 0`.
OrZero(col) == IF col = None THEN 0 ELSE col[1]

\* A text that is not JSON: what should be a member is a lone token.
NotJsonText == <<<<"{">>>>

\* json.loads(text) does not raise JSONDecodeError: every member of the
\* object is a name with its value.
JsonValid(text) == \A i \in 1..Len(text) : Len(text[i]) = 2

\* ---------------------------------------------------------------- texts

\* The lower-case letter of each ASCII capital.
UpperToLower ==
    ("A" :> "a") @@ ("B" :> "b") @@ ("C" :> "c") @@ ("D" :> "d") @@ ("E" :> "e") @@ ("F" :> "f") @@
    ("G" :> "g") @@ ("H" :> "h") @@ ("I" :> "i") @@ ("J" :> "j") @@ ("K" :> "k") @@ ("L" :> "l") @@
    ("M" :> "m") @@ ("N" :> "n") @@ ("O" :> "o") @@ ("P" :> "p") @@ ("Q" :> "q") @@ ("R" :> "r") @@
    ("S" :> "s") @@ ("T" :> "t") @@ ("U" :> "u") @@ ("V" :> "v") @@ ("W" :> "w") @@ ("X" :> "x") @@
    ("Y" :> "y") @@ ("Z" :> "z")

\* One character of str.lower() and of SQLite's LOWER, UPPER and LIKE
\* folding: on ASCII the three agree.
LowerChar(c) == IF c \in DOMAIN UpperToLower THEN UpperToLower[c] ELSE c

\* str.lower().
Lower(s) == [i \in 1..Len(s) |-> LowerChar(s[i])]

RECURSIVE StripLeft(_)
StripLeft(s) == IF s # <<>> /\ s[1] = " " THEN StripLeft(Tail(s)) ELSE s

RECURSIVE StripRight(_)
StripRight(s) ==
    IF s # <<>> /\ s[Len(s)] = " " THEN StripRight(SubSeq(s, 1, Len(s) - 1)) ELSE s

\* str.strip().
Strip(s) == StripRight(StripLeft(s))

\* The decimal digits and their values.
DigitValue ==
    ("0" :> 0) @@ ("1" :> 1) @@ ("2" :> 2) @@ ("3" :> 3) @@ ("4" :> 4) @@
    ("5" :> 5) @@ ("6" :> 6) @@ ("7" :> 7) @@ ("8" :> 8) @@ ("9" :> 9)

\* Characters str.isdigit() accepts and int() does not: the superscript
\* digits, of which the texts of the model use "²".
SuperscriptDigits == {"²"}

\* str.isdigit(): not empty and every character a digit.
IsDigit(s) ==
    /\ s # <<>>
    /\ \A i \in 1..Len(s) : s[i] \in DOMAIN DigitValue \cup SuperscriptDigits

\* The digits int() reads: the text without the blanks around it and
\* without a leading sign.
IntDigits(s) ==
    LET t == Strip(s)
    IN  IF t # <<>> /\ t[1] \in {"+", "-"} THEN Tail(t) ELSE t

\* int(s) does not raise ValueError.
IntValid(s) ==
    /\ IntDigits(s) # <<>>
    /\ \A i \in 1..Len(IntDigits(s)) : IntDigits(s)[i] \in DOMAIN DigitValue

RECURSIVE DecimalValue(_)
DecimalValue(d) ==
    IF d = <<>> THEN 0
    ELSE DecimalValue(SubSeq(d, 1, Len(d) - 1)) * 10 + DigitValue[d[Len(d)]]

\* int(s), for s with IntValid(s).
IntValue(s) ==
    LET t == Strip(s)
    IN  IF t[1] = "-" THEN 0 - DecimalValue(IntDigits(s)) ELSE DecimalValue(IntDigits(s))

\* c in s.
Contains(s, c) == \E i \in 1..Len(s) : s[i] = c

RECURSIVE Split(_, _)
\* s.split(c): the parts of s between the occurrences of c.
Split(s, c) ==
    IF ~Contains(s, c) THEN <<s>>
    ELSE LET i == CHOOSE k \in 1..Len(s) : s[k] = c /\ \A j \in 1..(k - 1) : s[j] # c
         IN  <<SubSeq(s, 1, i - 1)>> \o Split(SubSeq(s, i + 1, Len(s)), c)

\* s.replace("*", "%").
ReplaceStar(s) == [i \in 1..Len(s) |-> IF s[i] = "*" THEN "%" ELSE s[i]]

RECURSIVE Like(_, _)
\* text LIKE pat of SQLite: % is any run of characters, _ is any one
\* character, every other character is itself in either ASCII letter case.
Like(pat, text) ==
    IF pat = <<>> THEN text = <<>>
    ELSE IF pat[1] = "%"
         THEN \/ Like(Tail(pat), text)
              \/ text # <<>> /\ Like(pat, Tail(text))
         ELSE /\ text # <<>>
              /\ pat[1] = "_" \/ LowerChar(pat[1]) = LowerChar(text[1])
              /\ Like(Tail(pat), Tail(text))

\* f"%{s}%".
Surround(s) == <<"%">> \o s \o <<"%">>

\* str.find(): the offset of the first occurrence of sub in s, -1 for none.
Find(s, sub) ==
    LET at(k) == k + Len(sub) <= Len(s) /\ SubSeq(s, k + 1, k + Len(sub)) = sub
    IN  IF \E k \in 0..Len(s) : at(k)
        THEN CHOOSE k \in 0..Len(s) : at(k) /\ \A j \in 0..(k - 1) : ~at(j)
        ELSE -1

\* ----------------------------------------------------------------- rows

\* An INSERT that binds no timing.
ToRowNoTiming(record) ==
    [id |-> record.id, timestamp |-> record.timestamp,
     method |-> record.method, url |-> record.url, domain |-> record.domain,
     status |-> record.status, resource_type |-> record.resource_type,
     size |-> record.size, time_ms |-> record.time_ms,
     request_headers |-> Some(JsonDumps(record.request_headers)),
     request_body |-> record.request_body,
     request_body_size |-> Some(record.request_body_size),
     response_headers |-> Some(JsonDumps(record.response_headers)),
     response_body |-> record.response_body,
     timing |-> None,
     error |-> record.error]

\* The parameters add() binds to its INSERT.
ToRow(record) ==
    [id |-> record.id, timestamp |-> record.timestamp,
     method |-> record.method, url |-> record.url, domain |-> record.domain,
     status |-> record.status, resource_type |-> record.resource_type,
     size |-> record.size, time_ms |-> record.time_ms,
     request_headers |-> Some(JsonDumps(record.request_headers)),
     request_body |-> record.request_body,
     request_body_size |-> Some(record.request_body_size),
     response_headers |-> Some(JsonDumps(record.response_headers)),
     response_body |-> record.response_body,
     timing |-> Some(JsonDumps(record.timing)),
     error |-> record.error]

\* _row_to_record raises: one of its three json.loads does, and nothing
\* catches it.
RowRaises(row) ==
    \/ ~JsonValid(OrEmptyObject(row.request_headers))
    \/ ~JsonValid(OrEmptyObject(row.response_headers))
    \/ ~JsonValid(OrEmptyObject(row.timing))

\* _row_to_record, for a row it does not raise on.
RowToRecord(row) ==
    [id |-> row.id, timestamp |-> row.timestamp,
     method |-> row.method, url |-> row.url, domain |-> row.domain,
     status |-> row.status, resource_type |-> row.resource_type,
     size |-> row.size, time_ms |-> row.time_ms,
     request_headers |-> JsonLoads(OrEmptyObject(row.request_headers)),
     request_body |-> row.request_body,
     request_body_size |-> OrZero(row.request_body_size),
     response_headers |-> JsonLoads(OrEmptyObject(row.response_headers)),
     response_body |-> row.response_body,
     timing |-> JsonLoads(OrEmptyObject(row.timing)),
     error |-> row.error]

\* A replacement that writes the new row's headers and leaves the bodies and
\* the error of the row it replaces.
InsertMixed(rows, row) ==
    {x \in rows : x.id # row.id} \cup
    {IF \E x \in rows : x.id = row.id
     THEN LET old == CHOOSE x \in rows : x.id = row.id
          IN  [row EXCEPT !.request_body = old.request_body,
                          !.response_body = old.response_body,
                          !.error = old.error]
     ELSE row}

\* INSERT without the primary key's replacement.
InsertOnly(rows, row) == rows \cup {row}

\* INSERT OR REPLACE INTO traffic: id is the primary key, so the row of the
\* same id, if any, goes and the new row comes.
InsertOrReplace(rows, row) == {x \in rows : x.id # row.id} \cup {row}

\* SELECT COUNT(*) FROM traffic.
CountRows(rows) == Cardinality(rows)

\* ORDER BY timestamp DESC in _cleanup's DELETE: the newest rows go.
NewestSets(rows, k) ==
    {S \in SUBSET rows :
        /\ Cardinality(S) = Min(Max(k, 0), Cardinality(rows))
        /\ \A s \in S : \A r \in rows \ S : s.timestamp >= r.timestamp}

\* The sets SELECT id FROM traffic ORDER BY timestamp ASC LIMIT k may give:
\* k rows (all of them when there are fewer) none of which is newer than a
\* row left out.  SQL leaves the order among equal timestamps open.
OldestSets(rows, k) ==
    {S \in SUBSET rows :
        /\ Cardinality(S) = Min(Max(k, 0), Cardinality(rows))
        /\ \A s \in S : \A r \in rows \ S : s.timestamp <= r.timestamp}

\* _cleanup's test, one off.
OverSizeLate(count, maxSize) == count > maxSize + 1

\* _cleanup's test.
OverSize(count, maxSize) == count > maxSize

\* _cleanup's delete_count.
DeleteCount(count, maxSize) == count - maxSize

\* The tables _cleanup may leave, given the count it read.
CleanupResults(rows, count, maxSize) ==
    IF OverSize(count, maxSize)
    THEN {rows \ S : S \in OldestSets(rows, DeleteCount(count, maxSize))}
    ELSE {rows}

\* The tables add(record) may leave when nothing else writes meanwhile.
AddResults(rows, record, maxSize) ==
    LET inserted == InsertOrReplace(rows, ToRow(record))
    IN  CleanupResults(inserted, CountRows(inserted), maxSize)


\* get_by_id raises: there is a row with this id and _row_to_record raises.
GetByIdRaises(rows, id) == \E x \in rows : x.id = id /\ RowRaises(x)

\* get_by_id: the record of the row with this id, None without one.
GetByIdResult(rows, id) ==
    IF \E x \in rows : x.id = id
    THEN Some(RowToRecord(CHOOSE x \in rows : x.id = id))
    ELSE None

\* The rows of greatest timestamp.
Newest(rows) == {x \in rows : \A y \in rows : y.timestamp <= x.timestamp}

RECURSIVE DescOrders(_)
\* The orders ORDER BY timestamp DESC may give: SQL leaves the order among
\* equal timestamps open.
DescOrders(rows) ==
    IF rows = {} THEN {<<>>}
    ELSE UNION {{<<x>> \o s : s \in DescOrders(rows \ {x})} : x \in Newest(rows)}

\* LIMIT limit OFFSET offset of SQLite: a negative limit is no limit, a
\* negative offset is no offset.
LimitOffset(s, limit, offset) ==
    LET skip == Min(Max(offset, 0), Len(s))
        rest == Len(s) - skip
        n    == IF limit < 0 THEN rest ELSE Min(limit, rest)
    IN  SubSeq(s, skip + 1, skip + n)

\* query's and traffic_list's `limit = min(limit, 10)`.
ClampLimit(limit) == Min(limit, QueryMaxLimit)

\* A filter argument is used: `if filter_x:` is false for None and for "".
Truthy(opt) == opt # None /\ opt[1] # <<>>

\* The filters of query and traffic_list.
Filters(d, t, st, u) == [domain |-> d, type |-> t, status |-> st, url |-> u]

NoFilters == Filters(None, None, None, None)

\* The upper end of a status class that takes in the first status of the
\* next class.
ClassUpperNext(prefix) == prefix * 100 + 100

\* The upper end of the status class Nxx.
ClassUpper(prefix) == prefix * 100 + 99

\* _build_status_condition returned None: no condition is added.
NoCondition == [kind |-> "none", lo |-> 0, hi |-> 0]

\* _build_status_condition: "status = ?" as kind eq, "status BETWEEN ? AND ?"
\* as kind between, None as kind none, and kind raise where int() raises
\* ValueError outside a try.
BuildStatusCondition(text) ==
    LET pattern == Lower(Strip(text))
        parts   == Split(pattern, "-")
    IN  IF IsDigit(pattern)
        THEN IF IntValid(pattern)
             THEN [kind |-> "eq", lo |-> IntValue(pattern), hi |-> IntValue(pattern)]
             ELSE [kind |-> "raise", lo |-> 0, hi |-> 0]
        ELSE IF Contains(pattern, "-")
        THEN IF Len(parts) = 2 /\ IntValid(parts[1]) /\ IntValid(parts[2])
             THEN [kind |-> "between", lo |-> IntValue(parts[1]), hi |-> IntValue(parts[2])]
             ELSE NoCondition
        ELSE IF Len(pattern) = 3 /\ pattern[2] = "x" /\ pattern[3] = "x"
        THEN IF IntValid(<<pattern[1]>>)
             THEN [kind |-> "between", lo |-> IntValue(<<pattern[1]>>) * 100,
                   hi |-> ClassUpper(IntValue(<<pattern[1]>>))]
             ELSE NoCondition
        ELSE NoCondition

\* The status condition of query(filter_status=...).
StatusCondition(f) ==
    IF Truthy(f.status) THEN BuildStatusCondition(f.status[1]) ELSE NoCondition

\* The WHERE clause of query, with the status condition cond.
RowMatches(row, f, cond) ==
    /\ Truthy(f.domain) => Like(ReplaceStar(f.domain[1]), row.domain)
    /\ Truthy(f.type) => Lower(row.resource_type) = Lower(f.type[1])
    /\ CASE cond.kind = "eq" -> row.status = cond.lo
         [] cond.kind = "between" -> cond.lo <= row.status /\ row.status <= cond.hi
         [] OTHER -> TRUE
    /\ Truthy(f.url) => Like(Surround(f.url[1]), row.url)

Matching(rows, f) ==
    LET cond == StatusCondition(f)
    IN  {x \in rows : RowMatches(x, f, cond)}

\* The rows query's SELECT may give.
QueryPages(rows, limit, offset, f) ==
    {LimitOffset(s, ClampLimit(limit), offset) : s \in DescOrders(Matching(rows, f))}

\* The list comprehension of _row_to_record raises.
PageRaises(page) == \E i \in 1..Len(page) : RowRaises(page[i])

PageRecords(page) == [i \in 1..Len(page) |-> RowToRecord(page[i])]

\* TrafficRecord.to_summary.
ToSummary(r) ==
    [id |-> r.id, timestamp |-> r.timestamp, method |-> r.method, url |-> r.url,
     domain |-> r.domain, status |-> r.status, type |-> r.resource_type,
     size |-> r.size, time |-> r.time_ms, error |-> r.error]

\* _init_db through sqlite3.connect: the file is there afterwards, whether or
\* not it was before.
InitDb(fileExists) == TRUE

\* SQLiteTrafficStore.exists.
StoreExists(fileExists) == fileExists

\* ---------------------------------------------------------------- state

Threads == {1, 2}
\* The store objects of the process: each has its own _lock.
Objects == {1, 2}

VARIABLES
    exists,     \* the backing file exists
    db,         \* the committed rows of table traffic
    last,       \* the most recent call seen from outside: what it was called
                \* with, the state it started from and what it returned
    added,      \* the records added since the store was last emptied, while
                \* their ids and their timestamps are pairwise distinct
    pc,         \* where each thread is in add / clear
    arg,        \* the record of the thread's add
    obj,        \* the store object the thread's call goes through
    cnt,        \* the count _cleanup read
    lock,       \* per store object: the thread holding its _lock, 0 for none
    txnOwner,   \* the thread whose write transaction is open, 0 for none
    txnRows,    \* the rows as the open write transaction has them
    counter     \* the capture process's count of the responses it has seen

vars == <<exists, db, last, added, pc, arg, obj, cnt, lock, txnOwner, txnRows,
          counter>>

threadVars == <<pc, arg, obj, cnt, lock, txnOwner, txnRows>>

NoRecord == TrafficRecord(0, 0, PayloadA)

\* A call that returned res.
Call(op, args, res) ==
    [op |-> op, existed |-> exists, before |-> db, args |-> args, res |-> res,
     exc |-> ""]

\* A call that raised exc to its caller.
Raise(op, args, exc) ==
    [op |-> op, existed |-> exists, before |-> db, args |-> args, res |-> <<>>,
     exc |-> exc]

FreshRun == [ok |-> TRUE, recs |-> {}]

\* `added` after add(r).
Extend(run, r) ==
    IF /\ run.ok
       /\ \A x \in run.recs : x.id # r.id /\ x.timestamp # r.timestamp
    THEN [ok |-> TRUE, recs |-> run.recs \cup {r}]
    ELSE [ok |-> FALSE, recs |-> {}]

InitThreads ==
    /\ pc = [t \in Threads |-> "idle"]
    /\ arg = [t \in Threads |-> NoRecord]
    /\ obj = [t \in Threads |-> 0]
    /\ cnt = [t \in Threads |-> 0]
    /\ lock = [o \in Objects |-> 0]
    /\ txnOwner = 0
    /\ txnRows = {}
    /\ counter = 0

\* No proxy was started yet: there is no backing file.
Init ==
    /\ exists = FALSE
    /\ db = {}
    /\ last = Call("none", <<>>, <<>>)
    /\ added = FreshRun
    /\ InitThreads

\* ------------------------------------------------ calls, one at a time

\* SQLiteTrafficStore.__init__.
NewStore ==
    /\ exists' = InitDb(exists)
    /\ last' = Call("init", <<>>, <<>>)
    /\ UNCHANGED <<db, added, threadVars, counter>>

\* android-proxy-start: a store on the default path, cleared, and the
\* capture script loaded with its counter at 0.
CaptureStart ==
    /\ exists' = InitDb(exists)
    /\ db' = {}
    /\ added' = FreshRun
    /\ counter' = 0
    /\ last' = Call("start", <<>>, <<>>)
    /\ UNCHANGED threadVars

\* add(record), nothing else writing meanwhile.
Add(r) ==
    /\ exists
    /\ \E rows \in AddResults(db, r, MaxSize) : db' = rows
    /\ added' = Extend(added, r)
    /\ last' = Call("add", <<r>>, <<>>)
    /\ UNCHANGED <<exists, threadVars, counter>>

\* A clear whose DELETE spares the newest rows.
ClearOlder ==
    /\ exists
    /\ db' = Newest(db)
    /\ added' = FreshRun
    /\ last' = Call("clear", <<>>, <<>>)
    /\ UNCHANGED <<exists, threadVars, counter>>

\* clear().
Clear ==
    /\ exists
    /\ db' = {}
    /\ added' = FreshRun
    /\ last' = Call("clear", <<>>, <<>>)
    /\ UNCHANGED <<exists, threadVars, counter>>

\* __len__: count().
StoreLen ==
    /\ exists
    /\ last' = Call("len", <<>>, CountRows(db))
    /\ UNCHANGED <<exists, db, added, threadVars, counter>>

\* get_by_id(id).
GetById(id) ==
    /\ exists
    /\ last' = IF GetByIdRaises(db, id)
               THEN Raise("get_by_id", <<id>>, "JSONDecodeError")
               ELSE Call("get_by_id", <<id>>, GetByIdResult(db, id))
    /\ UNCHANGED <<exists, db, added, threadVars, counter>>

\* query(limit, offset, filter_domain, filter_type, filter_status, filter_url).
Query(limit, offset, f) ==
    /\ exists
    /\ IF StatusCondition(f).kind = "raise"
       THEN last' = Raise("query", <<limit, offset, f>>, "ValueError")
       ELSE \E page \in QueryPages(db, limit, offset, f) :
              last' = IF PageRaises(page)
                      THEN Raise("query", <<limit, offset, f>>, "JSONDecodeError")
                      ELSE Call("query", <<limit, offset, f>>, PageRecords(page))
    /\ UNCHANGED <<exists, db, added, threadVars, counter>>

\* --------------------------------------------------------- traffic tools

\* The response every traffic tool gives when exists() is false.
NotStarted == [success |-> FALSE, notStarted |-> TRUE]

NotFound == [success |-> FALSE, notStarted |-> FALSE, message |-> "Request not found"]

InvalidField == [success |-> FALSE, notStarted |-> FALSE, message |-> "invalid field"]

RECURSIVE Utf8Valid(_)
\* Whether the bytes are UTF-8, for bodies of one-byte and two-byte
\* sequences and of bytes that start no sequence (0x80-0xC1, 0xF5-0xFF);
\* the bodies of the model hold no others.
Utf8Valid(b) ==
    IF Len(b) = 0 THEN TRUE
    ELSE IF b[1] < 128 THEN Utf8Valid(Tail(b))
    ELSE IF b[1] >= 194 /\ b[1] <= 223 /\ Len(b) >= 2 /\ b[2] >= 128 /\ b[2] <= 191
         THEN Utf8Valid(Tail(Tail(b)))
         ELSE FALSE

RECURSIVE Utf8Chars(_)
\* The code points of UTF-8 bytes.
Utf8Chars(b) ==
    IF Len(b) = 0 THEN <<>>
    ELSE IF b[1] < 128 THEN <<b[1]>> \o Utf8Chars(Tail(b))
    ELSE <<(b[1] - 192) * 64 + (b[2] - 128)>> \o Utf8Chars(Tail(Tail(b)))

\* body.decode("utf-8"), body.decode("latin-1") when that fails: latin-1
\* gives one character per byte, of the byte's value.
Decode(body) == IF Utf8Valid(body) THEN Utf8Chars(body) ELSE body

\* A bound of a slice as Python reads it: counted from the end when
\* negative, and kept within the text.
SliceIndex(n, i) == IF i < 0 THEN Max(n + i, 0) ELSE Min(i, n)

\* A slice that ends at `length`.
SliceToLength(s, offset, length) ==
    SubSeq(s, SliceIndex(Len(s), offset) + 1, SliceIndex(Len(s), length))

\* s[offset:offset + length].
Slice(s, offset, length) ==
    SubSeq(s, SliceIndex(Len(s), offset) + 1, SliceIndex(Len(s), offset + length))

\* has_more that stops one character early.
HasMoreEarly(offset, length, total) == offset + length < total - 1

\* read_body's has_more.
HasMore(offset, length, total) == offset + length < total

\* read_body.
ReadBodyResult(rows, id, field, offset, length) ==
    IF field \notin {"request_body", "response_body"} THEN None
    ELSE IF ~(\E x \in rows : x.id = id) THEN None
    ELSE LET row  == CHOOSE x \in rows : x.id = id
             body == IF field = "request_body" THEN row.request_body
                     ELSE row.response_body
         IN  IF body = None
             THEN Some([content |-> <<>>, offset |-> 0, length |-> 0,
                        total_size |-> 0, has_more |-> FALSE])
             ELSE LET str     == Decode(body[1])
                      content == Slice(str, offset, length)
                  IN  Some([content |-> content, offset |-> offset,
                            length |-> Len(content), total_size |-> Len(str),
                            has_more |-> HasMore(offset, length, Len(str))])

RECURSIVE ReadAll(_, _, _, _, _, _, _)
\* read_body called at offset, offset + length, ... for as long as the
\* chunk says has_more and at most MaxCalls times: the contents put
\* together, the number of calls, and whether the last chunk said that
\* nothing is left.
ReadAll(rows, id, field, offset, length, text, calls) ==
    LET chunk == ReadBodyResult(rows, id, field, offset, length)[1]
    IN  IF chunk.has_more /\ calls < MaxCalls
        THEN ReadAll(rows, id, field, offset + length, length,
                     text \o chunk.content, calls + 1)
        ELSE [text |-> text \o chunk.content, calls |-> calls,
              finished |-> ~chunk.has_more]

\* --------------------------------------------------------------- search

\* The ASCII characters from "a" (code 97) to "}" (code 125).
AsciiTable ==
    <<
      "a", "b", "c", "d", "e", "f", "g", "h", "i", "j", "k", "l", "m",
      "n", "o", "p", "q", "r", "s", "t", "u", "v", "w", "x", "y", "z",
      "{", "|", "}"
    >>

\* The character of a code point, for the code points the bodies of the
\* model decode to: those of AsciiTable and U+00E9.
Chr(code) ==
    IF code >= 97 /\ code <= 125 THEN AsciiTable[code - 96]
    ELSE IF code = 233 THEN "é"
    ELSE "�"

\* CAST(body AS TEXT) as LIKE reads it: the characters of UTF-8 bytes; in
\* bytes that are not UTF-8 every byte that starts no sequence is one
\* character that is no character of a keyword.
CastText(body) ==
    IF Utf8Valid(body) THEN [i \in 1..Len(Utf8Chars(body)) |-> Chr(Utf8Chars(body)[i])]
    ELSE [i \in 1..Len(body) |-> IF body[i] < 128 THEN Chr(body[i]) ELSE "�"]

\* "name": "value"
MemberChars(m) == <<"\"">> \o m[1] \o <<"\"", ":", " ", "\"">> \o m[2] \o <<"\"">>

RECURSIVE JoinMembers(_)
JoinMembers(text) ==
    IF Len(text) = 0 THEN <<>>
    ELSE IF Len(text) = 1 THEN MemberChars(text[1])
    ELSE MemberChars(text[1]) \o <<",", " ">> \o JoinMembers(Tail(text))

\* The characters of the text json.dumps wrote for a dict of headers.
JsonChars(text) == <<"{">> \o JoinMembers(text) \o <<"}">>

\* The same fields with the bodies looked into first.
AllSearchFieldsBodiesFirst ==
    <<"request_body", "response_body", "url", "request_headers", "response_headers">>

\* The fields search looks into for search_in None or with "all" in it.
AllSearchFields ==
    <<"url", "request_headers", "request_body", "response_headers", "response_body">>

BodyColumns == {"request_body", "response_body"}

\* matched_content of the SELECT for field: NULL (None) or a text.
FieldText(row, field) ==
    IF field = "url" THEN Some(row.url)
    ELSE IF row[field] = None THEN None
    ELSE IF field \in BodyColumns THEN Some(CastText(row[field][1]))
    ELSE Some(JsonChars(row[field][1]))

\* fetchall() raises sqlite3.OperationalError (could not decode to UTF-8):
\* the row's matched_content is a body cast to text that is not UTF-8.
FetchRaises(row, field) ==
    field \in BodyColumns /\ row[field] # None /\ ~Utf8Valid(row[field][1])

\* The base conditions of search: UPPER(method) = UPPER(?) and domain LIKE ?.
BasePasses(row, method, domain) ==
    /\ Truthy(method) => Lower(row.method) = Lower(method[1])
    /\ Truthy(domain) => Like(ReplaceStar(domain[1]), row.domain)

\* The WHERE clause of the SELECT for field: NULL LIKE ? is not true.
SearchMatches(row, field, keyword, method, domain) ==
    /\ BasePasses(row, method, domain)
    /\ FieldText(row, field) # None
    /\ Like(Surround(keyword), FieldText(row, field)[1])

Ellipsis == <<".", ".", ".">>

\* _extract_snippet.
ExtractSnippet(content, keyword, context_chars) ==
    LET pos    == Find(Lower(content), Lower(keyword))
        start  == Max(0, pos - context_chars)
        end    == Min(Len(content), pos + Len(keyword) + context_chars)
        middle == Slice(content, start, end - start)
    IN  IF content = <<>> THEN <<>>
        ELSE IF pos = -1
        THEN IF Len(content) > context_chars * 2
             THEN Slice(content, 0, context_chars * 2) \o Ellipsis
             ELSE content
        ELSE (IF start > 0 THEN Ellipsis ELSE <<>>) \o middle \o
             (IF end < Len(content) THEN Ellipsis ELSE <<>>)

\* field_size: `row["field_size"] or len(matched_content)`, and
\* len(matched_content) for the fields whose SELECT has no field_size.
FieldSize(row, field, content) ==
    IF field \in BodyColumns /\ Len(row[field][1]) # 0
    THEN Len(row[field][1]) ELSE Len(content)

\* The descriptor search appends for a fetched row.
Descriptor(row, field, keyword, context_chars) ==
    LET content == FieldText(row, field)[1]
    IN  [request_id |-> row.id, url |-> row.url, method |-> row.method,
         domain |-> row.domain, response_size |-> row.size,
         matched_in |-> field,
         snippet |-> ExtractSnippet(content, keyword, context_chars),
         match_position |-> Find(Lower(content), Lower(keyword)),
         field_size |-> FieldSize(row, field, content)]

\* The rows the SELECT for field may give: ORDER BY timestamp DESC LIMIT ?.
SearchPages(rows, field, keyword, method, domain, limit) ==
    {LimitOffset(s, limit, 0) :
        s \in DescOrders({x \in rows : SearchMatches(x, field, keyword, method, domain)})}

\* The rows of a page that `for row in rows` gets to before
\* `len(matches) >= limit` breaks it, with `have` matches collected before:
\* the test comes after the append, so the first row is always taken.
Taken(page, have, limit) ==
    SubSeq(page, 1, Min(Len(page), Max(1, limit - have)))

RECURSIVE SearchFrom(_, _, _, _, _, _, _, _)
\* The loop over search_in from its fields on, with the matches collected so
\* far: the outcomes it may have, each the matches or the exception raised.
SearchFrom(rows, fields, matches, keyword, method, domain, context_chars, limit) ==
    IF fields = <<>> THEN {[exc |-> "", matches |-> matches]}
    ELSE IF Head(fields) \notin {AllSearchFields[i] : i \in 1..Len(AllSearchFields)}
    THEN SearchFrom(rows, Tail(fields), matches, keyword, method, domain,
                    context_chars, limit)
    ELSE UNION {
        IF \E i \in 1..Len(page) : FetchRaises(page[i], Head(fields))
        THEN {[exc |-> "OperationalError", matches |-> <<>>]}
        ELSE LET taken == Taken(page, Len(matches), limit)
                 more  == matches \o
                          [i \in 1..Len(taken) |->
                              Descriptor(taken[i], Head(fields), keyword, context_chars)]
             IN  IF Len(more) >= limit
                 THEN {[exc |-> "", matches |-> more]}
                 ELSE SearchFrom(rows, Tail(fields), more, keyword, method, domain,
                                 context_chars, limit)
        : page \in SearchPages(rows, Head(fields), keyword, method, domain, limit)}

\* search(keyword, search_in, method, domain, context_chars, limit): the
\* outcomes it may have; the matches returned are matches[:limit].
SearchOutcomes(rows, keyword, search_in, method, domain, context_chars, limit) ==
    LET fields == IF search_in = None \/ Contains(search_in[1], "all")
                  THEN AllSearchFields ELSE search_in[1]
    IN  {[exc |-> o.exc, matches |-> Slice(o.matches, 0, limit)] :
            o \in SearchFrom(rows, fields, <<>>, keyword, method, domain,
                             context_chars, limit)}

\* traffic_list(limit, offset, filter_...).  _get_store() comes first and
\* builds a store object on the default path; exists() is asked after it.
\* Nothing catches what query raises.
TrafficList(limit, offset, f) ==
    LET e == InitDb(exists)
        args == <<limit, offset, f>>
    IN  /\ exists' = e
        /\ IF ~StoreExists(e)
           THEN last' = Call("traffic_list", args, NotStarted)
           ELSE IF StatusCondition(f).kind = "raise"
           THEN last' = Raise("traffic_list", args, "ValueError")
           ELSE \E page \in QueryPages(db, ClampLimit(limit), offset, f) :
                  last' =
                    IF PageRaises(page)
                    THEN Raise("traffic_list", args, "JSONDecodeError")
                    ELSE Call("traffic_list", args,
                           [success |-> TRUE, notStarted |-> FALSE,
                            requests |-> [i \in 1..Len(page) |->
                                            ToSummary(RowToRecord(page[i]))],
                            returned |-> Len(page), offset |-> offset,
                            store_size |-> CountRows(db),
                            has_more |-> offset + Len(page) < CountRows(db)])
        /\ UNCHANGED <<db, added, threadVars, counter>>

\* The request_body_size of traffic_get_detail:
\* request_body_size or (len(request_body) if request_body else 0).
DetailBodySize(r) ==
    IF r.request_body_size # 0 THEN r.request_body_size
    ELSE IF r.request_body # None /\ Len(r.request_body[1]) > 0
         THEN Len(r.request_body[1]) ELSE 0

\* traffic_get_detail(request_id).  Nothing catches what get_by_id raises.
TrafficGetDetail(id) ==
    LET e == InitDb(exists)
        found == GetByIdResult(db, id)
    IN  /\ exists' = e
        /\ last' =
            IF StoreExists(e) /\ GetByIdRaises(db, id)
            THEN Raise("traffic_get_detail", <<id>>, "JSONDecodeError")
            ELSE Call("traffic_get_detail", <<id>>,
              IF ~StoreExists(e) THEN NotStarted
              ELSE IF found = None THEN NotFound
              ELSE LET r == found[1]
                   IN  [success |-> TRUE, notStarted |-> FALSE,
                        request |->
                          [id |-> r.id, timestamp |-> r.timestamp,
                           method |-> r.method, url |-> r.url,
                           domain |-> r.domain, status |-> r.status,
                           resource_type |-> r.resource_type,
                           response_size |-> r.size, time_ms |-> r.time_ms,
                           request_headers |-> r.request_headers,
                           request_body_size |-> DetailBodySize(r),
                           response_headers |-> r.response_headers,
                           response_body_size |-> r.size,
                           timing |-> r.timing, error |-> r.error]])
        /\ UNCHANGED <<db, added, threadVars, counter>>

\* traffic_search(keyword, search_in, method, domain, context_chars, limit):
\* the store is only read, and nothing catches what search raises.
TrafficSearch(keyword, search_in, method, domain, context_chars, limit) ==
    LET e == InitDb(exists)
        args == <<keyword, search_in, method, domain, context_chars, limit>>
    IN  /\ exists' = e
        /\ IF ~StoreExists(e)
           THEN last' = Call("traffic_search", args, NotStarted)
           ELSE \E o \in SearchOutcomes(db, keyword, search_in, method, domain,
                                        context_chars, limit) :
                  last' =
                    IF o.exc # "" THEN Raise("traffic_search", args, o.exc)
                    ELSE Call("traffic_search", args,
                           [success |-> TRUE, notStarted |-> FALSE,
                            keyword |-> keyword,
                            search_in |-> IF Truthy(search_in) THEN search_in[1]
                                          ELSE <<"all">>,
                            matches |-> o.matches,
                            total_matches |-> Len(o.matches)])
        /\ UNCHANGED <<db, added, threadVars, counter>>

\* traffic_read_body(request_id, field, offset, length).
TrafficReadBody(id, field, offset, length) ==
    LET e == InitDb(exists)
        chunk == ReadBodyResult(db, id, field, offset, length)
    IN  /\ exists' = e
        /\ last' = Call("traffic_read_body", <<id, field, offset, length>>,
              IF ~StoreExists(e) THEN NotStarted
              ELSE IF field \notin {"request_body", "response_body"} THEN InvalidField
              ELSE IF chunk = None THEN NotFound
              ELSE [success |-> TRUE, notStarted |-> FALSE, chunk |-> chunk[1]])
        /\ UNCHANGED <<db, added, threadVars, counter>>

\* traffic_clear(), nothing else writing meanwhile.
TrafficClear ==
    LET e == InitDb(exists)
    IN  /\ exists' = e
        /\ IF ~StoreExists(e)
           THEN /\ last' = Call("traffic_clear", <<>>, NotStarted)
                /\ UNCHANGED <<db, added>>
           ELSE /\ last' = Call("traffic_clear", <<>>,
                      [success |-> TRUE, notStarted |-> FALSE,
                       cleared_count |-> CountRows(db)])
                /\ db' = {}
                /\ added' = FreshRun
        /\ UNCHANGED <<threadVars, counter>>

\* proxy_status(): exists() is asked before a store object is built.
ProxyStatus ==
    /\ IF ~StoreExists(exists)
       THEN /\ last' = Call("proxy_status", <<>>, [running |-> FALSE, notStarted |-> TRUE])
            /\ UNCHANGED exists
       ELSE /\ exists' = InitDb(exists)
            /\ last' = Call("proxy_status", <<>>,
                  [running |-> TRUE, notStarted |-> FALSE,
                   traffic_count |-> CountRows(db)])
    /\ UNCHANGED <<db, added, threadVars, counter>>

\* The limits and offsets the calls of Spec are made with.
SpecLimits == {-1, 1, QueryMaxLimit + 1}
SpecOffsets == {0, 1}
BodyFields == {"request_body", "response_body", "body"}
\* "token", "zzz"
KwToken == <<"t", "o", "k", "e", "n">>
KwNone == <<"z", "z", "z">>
SpecKeywords == {KwToken, KwNone}

Next ==
    \/ NewStore
    \/ CaptureStart
    \/ \E r \in Records : Add(r)
    \/ Clear
    \/ StoreLen
    \/ \E id \in Ids : GetById(id)
    \/ \E l \in SpecLimits : Query(l, 0, NoFilters)
    \/ \E l \in SpecLimits, o \in SpecOffsets : TrafficList(l, o, NoFilters)
    \/ \E id \in Ids : TrafficGetDetail(id)
    \/ \E k \in SpecKeywords : TrafficSearch(k, None, None, None, 150, QueryMaxLimit)
    \/ \E id \in Ids, f \in BodyFields : TrafficReadBody(id, f, 1, 1)
    \/ TrafficClear
    \/ ProxyStatus

Spec == Init /\ [][Next]_vars

\* ======================================================================
\* add and clear statement by statement (ConcSpec)
\*
\* Threads 1 and 2 belong to one process; each call goes through a store
\* object, which has a _lock of its own.  SQLite lets one connection at a
\* time hold an open write transaction: a write statement of another
\* connection waits for it (timeout=10) and then fails.  Readers see the
\* committed rows only.
\* ======================================================================

\* A step of a call in progress: nothing has returned.
Step ==
    [op |-> "step", existed |-> TRUE, before |-> {}, args |-> <<>>, res |-> <<>>,
     exc |-> ""]

\* The thread's call returns (or raises): the `with` blocks are left.
Return(t) ==
    /\ pc' = [pc EXCEPT ![t] = "idle"]
    /\ lock' = [o \in Objects |-> IF o = obj[t] THEN 0 ELSE lock[o]]
    /\ arg' = [arg EXCEPT ![t] = NoRecord]
    /\ obj' = [obj EXCEPT ![t] = 0]
    /\ cnt' = [cnt EXCEPT ![t] = 0]

\* add(record) through store object o: `with self._lock`.
AddLock(t, o, r) ==
    /\ exists
    /\ pc[t] = "idle"
    /\ lock[o] = 0
    /\ lock' = [lock EXCEPT ![o] = t]
    /\ obj' = [obj EXCEPT ![t] = o]
    /\ arg' = [arg EXCEPT ![t] = r]
    /\ pc' = [pc EXCEPT ![t] = "a_locked"]
    /\ last' = Step
    /\ UNCHANGED <<exists, db, added, cnt, txnOwner, txnRows, counter>>

\* INSERT OR REPLACE: opens the write transaction.
AddInsert(t) ==
    /\ pc[t] = "a_locked"
    /\ txnOwner = 0
    /\ txnOwner' = t
    /\ txnRows' = InsertOrReplace(db, ToRow(arg[t]))
    /\ pc' = [pc EXCEPT ![t] = "a_inserted"]
    /\ last' = Step
    /\ UNCHANGED <<exists, db, added, arg, obj, cnt, lock, counter>>

\* conn.commit() after the INSERT.
AddCommit(t) ==
    /\ pc[t] = "a_inserted"
    /\ db' = txnRows
    /\ txnOwner' = 0
    /\ txnRows' = {}
    /\ added' = Extend(added, arg[t])
    /\ pc' = [pc EXCEPT ![t] = "a_committed"]
    /\ last' = Step
    /\ UNCHANGED <<exists, arg, obj, cnt, lock, counter>>

\* _cleanup: SELECT COUNT(*) and the test; add returns when it fails.
AddCount(t) ==
    /\ pc[t] = "a_committed"
    /\ IF OverSize(CountRows(db), MaxSize)
       THEN /\ cnt' = [cnt EXCEPT ![t] = CountRows(db)]
            /\ pc' = [pc EXCEPT ![t] = "a_counted"]
            /\ UNCHANGED <<arg, obj, lock>>
       ELSE Return(t)
    /\ last' = Step
    /\ UNCHANGED <<exists, db, added, txnOwner, txnRows, counter>>

\* _cleanup: DELETE of the delete_count oldest rows, in a new transaction.
AddDelete(t) ==
    /\ pc[t] = "a_counted"
    /\ txnOwner = 0
    /\ \E S \in OldestSets(db, DeleteCount(cnt[t], MaxSize)) : txnRows' = db \ S
    /\ txnOwner' = t
    /\ pc' = [pc EXCEPT ![t] = "a_deleted"]
    /\ last' = Step
    /\ UNCHANGED <<exists, db, added, arg, obj, cnt, lock, counter>>

\* _cleanup: conn.commit(); add returns.
AddCleanupCommit(t) ==
    /\ pc[t] = "a_deleted"
    /\ db' = txnRows
    /\ txnOwner' = 0
    /\ txnRows' = {}
    /\ Return(t)
    /\ last' = Step
    /\ UNCHANGED <<exists, added, counter>>

\* clear() through store object o: `with self._lock`.
ClearLock(t, o) ==
    /\ exists
    /\ pc[t] = "idle"
    /\ lock[o] = 0
    /\ lock' = [lock EXCEPT ![o] = t]
    /\ obj' = [obj EXCEPT ![t] = o]
    /\ pc' = [pc EXCEPT ![t] = "c_locked"]
    /\ last' = Step
    /\ UNCHANGED <<exists, db, added, arg, cnt, txnOwner, txnRows, counter>>

\* DELETE FROM traffic.
ClearDelete(t) ==
    /\ pc[t] = "c_locked"
    /\ txnOwner = 0
    /\ txnOwner' = t
    /\ txnRows' = {}
    /\ pc' = [pc EXCEPT ![t] = "c_deleted"]
    /\ last' = Step
    /\ UNCHANGED <<exists, db, added, arg, obj, cnt, lock, counter>>

\* conn.commit(); clear returns.
ClearCommit(t) ==
    /\ pc[t] = "c_deleted"
    /\ db' = txnRows
    /\ txnOwner' = 0
    /\ txnRows' = {}
    /\ added' = FreshRun
    /\ Return(t)
    /\ last' = Step
    /\ UNCHANGED <<exists, counter>>

\* traffic_clear(): _get_store() builds a store object of its own (0: its
\* _lock is held by nobody else), then `count = len(store)`.
TrafficClearCount(t) ==
    /\ exists
    /\ pc[t] = "idle"
    /\ cnt' = [cnt EXCEPT ![t] = CountRows(db)]
    /\ pc' = [pc EXCEPT ![t] = "tc_counted"]
    /\ last' = Step
    /\ UNCHANGED <<exists, db, added, arg, obj, lock, txnOwner, txnRows, counter>>

\* traffic_clear(): store.clear(), its DELETE FROM traffic.
TrafficClearDelete(t) ==
    /\ pc[t] = "tc_counted"
    /\ txnOwner = 0
    /\ txnOwner' = t
    /\ txnRows' = {}
    /\ pc' = [pc EXCEPT ![t] = "tc_deleted"]
    /\ last' = Step
    /\ UNCHANGED <<exists, db, added, arg, obj, cnt, lock, counter>>

\* traffic_clear(): store.clear(), its conn.commit(); the tool returns the
\* count it read first.
TrafficClearCommit(t) ==
    /\ pc[t] = "tc_deleted"
    /\ db' = txnRows
    /\ txnOwner' = 0
    /\ txnRows' = {}
    /\ last' = Call("traffic_clear", <<>>,
                  [success |-> TRUE, notStarted |-> FALSE, cleared_count |-> cnt[t]])
    /\ added' = FreshRun
    /\ Return(t)
    /\ UNCHANGED <<exists, counter>>

\* A write statement waited out timeout=10 for another connection's write
\* transaction: sqlite3.OperationalError leaves the call.  Neither clear()
\* nor traffic_clear() catches it.
BusyTimeout(t) ==
    /\ pc[t] \in {"a_locked", "a_counted", "c_locked", "tc_counted"}
    /\ txnOwner \notin {0, t}
    /\ Return(t)
    /\ last' = IF pc[t] = "tc_counted"
               THEN Raise("traffic_clear", <<>>, "OperationalError")
               ELSE Step
    /\ UNCHANGED <<exists, db, added, txnOwner, txnRows, counter>>

\* The records add() is called with in ConcSpec: one per id, and a second
\* one, with other headers and bodies, for id 1.
ConcRecords ==
    {r \in Records : \/ r.timestamp = ((r.id - 1) % MaxTs) + 1
                     \/ r.id = 1 /\ r.timestamp = 2}

\* A store was built on the backing location and holds nothing yet.
ConcInit ==
    /\ exists = TRUE
    /\ db = {}
    /\ last = Step
    /\ added = FreshRun
    /\ InitThreads

ConcNext ==
    \/ \E t \in Threads, o \in Objects, r \in ConcRecords : AddLock(t, o, r)
    \/ \E t \in Threads : AddInsert(t)
    \/ \E t \in Threads : AddCommit(t)
    \/ \E t \in Threads : AddCount(t)
    \/ \E t \in Threads : AddDelete(t)
    \/ \E t \in Threads : AddCleanupCommit(t)
    \/ \E t \in Threads, o \in Objects : ClearLock(t, o)
    \/ \E t \in Threads : ClearDelete(t)
    \/ \E t \in Threads : ClearCommit(t)
    \/ \E t \in Threads : TrafficClearCount(t)
    \/ \E t \in Threads : TrafficClearDelete(t)
    \/ \E t \in Threads : TrafficClearCommit(t)
    \/ \E t \in Threads : BusyTimeout(t)
    \/ StoreLen
    \/ \E id \in Ids : GetById(id)
    \/ Query(QueryMaxLimit, 0, NoFilters)

ConcSpec == ConcInit /\ [][ConcNext]_vars

\* ======================================================================
\* query on stores of up to QMaxRows rows (QuerySpec)
\* ======================================================================

\* A store of n captured transactions; the first two share a timestamp.
QStore(n) == {ToRow(TrafficRecord(i, Max(i, 2), PayloadFor(i, i))) : i \in 1..n}

QueryInit ==
    /\ exists = TRUE
    /\ \E n \in 0..QMaxRows : db = QStore(n)
    /\ last = Step
    /\ added = [ok |-> FALSE, recs |-> {}]
    /\ InitThreads

\* The limits and offsets query and traffic_list are called with.
QueryLimits == -2..(QueryMaxLimit + 2)
QueryOffsets == {-1, 0, 1, 5}

QueryNext ==
    \/ \E l \in QueryLimits, o \in QueryOffsets : Query(l, o, NoFilters)
    \/ \E l \in QueryLimits, o \in QueryOffsets : TrafficList(l, o, NoFilters)

QuerySpec == QueryInit /\ [][QueryNext]_vars

\* ======================================================================
\* reads of a table another writer of the file has filled (StoredSpec)
\*
\* The columns request_headers, response_headers and timing are TEXT with
\* no constraint: the file can hold any text there.
\* ======================================================================

JsonColumns == {"request_headers", "response_headers", "timing"}

\* The row with text that is not JSON in one column.
Damaged(row, col) == [row EXCEPT ![col] = Some(NotJsonText)]

\* The rows a table may hold under id i: the row add() writes, or that row
\* with one column damaged.
StoredRows(i) ==
    LET row == ToRow(TrafficRecord(i, ((i - 1) % MaxTs) + 1, PayloadFor(i, i)))
    IN  {row} \cup {Damaged(row, col) : col \in JsonColumns}

StoredInit ==
    /\ exists = TRUE
    /\ \E S \in SUBSET Ids :
          \E pick \in [S -> UNION {StoredRows(i) : i \in Ids}] :
             /\ \A i \in S : pick[i] \in StoredRows(i)
             /\ db = {pick[i] : i \in S}
    /\ last = Step
    /\ added = [ok |-> FALSE, recs |-> {}]
    /\ InitThreads

StoredNext ==
    \/ \E id \in Ids : GetById(id)
    \/ \E l \in SpecLimits : Query(l, 0, NoFilters)
    \/ \E id \in Ids : TrafficGetDetail(id)
    \/ \E l \in SpecLimits : TrafficList(l, 0, NoFilters)

StoredSpec == StoredInit /\ [][StoredNext]_vars

\* ======================================================================
\* read_body on bodies of all kinds (BodySpec)
\* ======================================================================

\* The body columns of the model: NULL, b"", "hi", "{\u00e9}" in UTF-8, two
\* bytes that are not UTF-8, and "abcde".
Bodies ==
    <<None, Some(<<>>), Some(<<104, 105>>), Some(<<123, 195, 169, 125>>),
      Some(<<255, 104>>), Some(<<97, 98, 99, 100, 101>>)>>

\* One stored transaction, with one of the bodies as its request body and
\* the next one as its response body.
BodyInit ==
    /\ exists = TRUE
    /\ \E i \in 1..Len(Bodies) :
          db = {ToRow(TrafficRecord(1, 1,
                   [PayloadA EXCEPT !.request_body = Bodies[i],
                                    !.response_body = Bodies[(i % Len(Bodies)) + 1]]))}
    /\ last = Step
    /\ added = [ok |-> FALSE, recs |-> {}]
    /\ InitThreads

\* read_body(request_id, field, offset, length).
ReadBody(id, field, offset, length) ==
    /\ exists
    /\ last' = Call("read_body", <<id, field, offset, length>>,
                    ReadBodyResult(db, id, field, offset, length))
    /\ UNCHANGED <<exists, db, added, threadVars, counter>>

\* A caller reads a body of a stored record chunk by chunk, from offset 0 in
\* chunks of `length`, while nothing writes.
ReadWhole(id, field, length) ==
    /\ exists
    /\ field \in {"request_body", "response_body"}
    /\ \E x \in db : x.id = id
    /\ last' = Call("read_whole", <<id, field, length>>,
                    ReadAll(db, id, field, 0, length, <<>>, 1))
    /\ UNCHANGED <<exists, db, added, threadVars, counter>>

BodyIds == {1, 2}
BodyOffsets == -2..MaxOffset
BodyLengths == -1..MaxOffset

BodyNext ==
    \/ \E id \in BodyIds, f \in BodyFields, o \in BodyOffsets, n \in BodyLengths :
          ReadBody(id, f, o, n)
    \/ \E id \in BodyIds, f \in BodyFields, o \in BodyOffsets, n \in BodyLengths :
          TrafficReadBody(id, f, o, n)
    \/ \E id \in BodyIds, f \in BodyFields, n \in 1..MaxOffset : ReadWhole(id, f, n)

BodySpec == BodyInit /\ [][BodyNext]_vars

\* ======================================================================
\* query with filters (FilterSpec)
\* ======================================================================

\* "cdn.example.com", "http://cdn.example.com/abc", "Image"
DomainCdn == <<"c", "d", "n", ".", "e", "x", "a", "m", "p", "l", "e", ".", "c", "o", "m">>
UrlCdn == <<"h", "t", "t", "p", ":", "/", "/", "c", "d", "n", ".", "e", "x", "a", "m", "p", "l", "e", ".", "c", "o", "m", "/", "a", "b", "c">>
TypeImage == <<"I", "m", "a", "g", "e">>

\* Six captured transactions of three domains, with the statuses 200, 0,
\* 404, 499, 500 and 299.
FilterPayloads ==
    <<PayloadA,
      PayloadB,
      [PayloadA EXCEPT !.domain = DomainCdn, !.url = UrlCdn, !.status = 404,
                       !.resource_type = TypeImage],
      [PayloadA EXCEPT !.status = 499],
      [PayloadB EXCEPT !.status = 500],
      [PayloadA EXCEPT !.domain = DomainCdn, !.url = UrlCdn, !.status = 299]>>

\* The store after the first n of them were added, each later than the one
\* before.
FilterStore(n) == {ToRow(TrafficRecord(i, i, FilterPayloads[i])) : i \in 1..n}

FilterInit ==
    /\ exists = TRUE
    /\ \E n \in 0..Len(FilterPayloads) : db = FilterStore(n)
    /\ last = Step
    /\ added = [ok |-> FALSE, recs |-> {}]
    /\ InitThreads

\* The characters status filters are put together from.
StatusAlphabet == {"4", "x", "²"}

\* Every text of up to MaxPattern of these characters, and status filters
\* as callers write them.
StatusPatterns ==
    UNION {[1..n -> StatusAlphabet] : n \in 0..MaxPattern} \cup
    {<<"2", "0", "0">>,
     <<"4", "0", "4">>,
     <<"4", "x", "x">>,
     <<"4", "X", "X">>,
     <<" ", "2", "x", "x", " ">>,
     <<"5", "x", "x">>,
     <<"0", "x", "x">>,
     <<"2", "0", "0", "-", "2", "9", "9">>,
     <<"2", "9", "9", "-", "2", "0", "0">>,
     <<"4", "0", "0", "-", "4", "9", "9">>,
     <<"0", "-", "4", "0", "4">>,
     <<"2", "0", "0", " ", "-", " ", "4", "0", "4">>,
     <<"1", "-", "2", "-", "3">>,
     <<"+", "2", "0", "0">>,
     <<"2", "0", "x">>,
     <<"a", "b", "c">>,
     <<"4", "x", "x", "x">>,
     <<"-", "5">>,
     <<"-">>,
     <<"4", "-">>,
     <<"-", "4">>,
     <<"4", "-", "4">>,
     <<"4", "-", "4", "-", "4">>,
     <<"²", "-", "4">>,
     <<"4", "-", "x">>}

UrlFilters ==
    {<<"T", "o", "k", "e", "n">>,
     <<"t", "o", "k", "e", "n">>,
     <<"a", "b", "c">>,
     <<"a", "_", "c">>,
     <<"a", "%", "c">>,
     <<"%">>,
     <<"e", "x", "a", "m", "p", "l", "e">>,
     <<"z", "z", "z">>}

DomainFilters ==
    {<<"*", ".", "e", "x", "a", "m", "p", "l", "e", ".", "c", "o", "m">>,
     <<"e", "x", "a", "m", "p", "l", "e", ".", "c", "o", "m">>,
     <<"a", "p", "i", ".", "e", "x", "a", "m", "p", "l", "e", ".", "c", "o", "m">>,
     <<"A", "P", "I", ".", "e", "x", "a", "m", "p", "l", "e", ".", "c", "o", "m">>,
     <<"a", "_", "i", ".", "e", "x", "a", "m", "p", "l", "e", ".", "c", "o", "m">>,
     <<"%">>,
     <<"*">>,
     <<"a", "p", "i", ".", "*">>,
     <<"*", "e", "x", "a", "m", "p", "l", "e", ".", "c", "o", "m">>}

TypeFilters == {<<"x", "h", "r">>, <<"X", "H", "R">>, <<"i", "m", "a", "g", "e">>}

\* The limits query is called with in FilterSpec.
FilterLimits == {2, QueryMaxLimit}

FilterNext ==
    \/ \E st \in StatusPatterns :
          Query(QueryMaxLimit, 0, Filters(None, None, Some(st), None))
    \/ \E l \in FilterLimits, u \in UrlFilters :
          Query(l, 0, Filters(None, None, None, Some(u)))
    \/ \E l \in FilterLimits, d \in DomainFilters :
          Query(l, 0, Filters(Some(d), None, None, None))
    \/ \E d \in DomainFilters, t \in TypeFilters :
          Query(2, 1, Filters(Some(d), Some(t), Some(<<"2", "0", "0", "-", "4", "9", "9">>), Some(<<"e", "x", "a", "m", "p", "l", "e">>)))
    \/ \E d \in DomainFilters, t \in TypeFilters :
          TrafficList(QueryMaxLimit, 0, Filters(Some(d), Some(t), None, None))
    \/ \E st \in {<<"4", "x", "x">>, <<"²">>, <<"a", "b", "c">>} :
          TrafficList(2, 0, Filters(None, None, Some(st), None))

FilterSpec == FilterInit /\ [][FilterNext]_vars

\* ======================================================================
\* search (SearchSpec)
\* ======================================================================

\* Four captured transactions: the two of Payloads, one of another domain
\* whose response body is "abcde", and one whose response body is bytes that
\* are not UTF-8.
SearchPayloads ==
    <<PayloadA,
      PayloadB,
      [PayloadA EXCEPT !.domain = DomainCdn, !.url = UrlCdn,
                       !.response_body = Some(<<97, 98, 99, 100, 101>>)],
      [PayloadB EXCEPT !.response_body = Some(<<255, 104>>)]>>

\* The store after the first n of them were added, each later than the one
\* before.
SearchStore(n) == {ToRow(TrafficRecord(i, i, SearchPayloads[i])) : i \in 1..n}

SearchInit ==
    /\ exists = TRUE
    /\ \E n \in 0..Len(SearchPayloads) : db = SearchStore(n)
    /\ last = Step
    /\ added = [ok |-> FALSE, recs |-> {}]
    /\ InitThreads

\* search(keyword, search_in, method, domain, context_chars, limit) of the
\* store.
Search(keyword, search_in, method, domain, context_chars, limit) ==
    LET args == <<keyword, search_in, method, domain, context_chars, limit>>
    IN  /\ exists
        /\ \E o \in SearchOutcomes(db, keyword, search_in, method, domain,
                                    context_chars, limit) :
              last' = IF o.exc # "" THEN Raise("search", args, o.exc)
                      ELSE Call("search", args, o.matches)
        /\ UNCHANGED <<exists, db, added, threadVars, counter>>

\* The keywords searched for: "token", "a_c", "abc", "", "h", "_" and "zzz".
SearchKeywords ==
    {KwToken,
     <<"a", "_", "c">>,
     <<"a", "b", "c">>,
     <<>>,
     <<"h">>,
     <<"_">>,
     KwNone}

\* The values of search_in.
SearchIns ==
    {None,
     Some(<<"url">>),
     Some(<<"url", "url">>),
     Some(<<"response_body", "url">>),
     Some(<<"request_headers", "response_headers">>),
     Some(<<"bogus", "url">>)}

SearchLimits == {0, 1, 2, QueryMaxLimit}

\* The method and domain pre-filters: none, "get", "POST"; none,
\* "*.example.com", "a_i%".
SearchMethods == {None, Some(<<"g", "e", "t">>), Some(MethodPost)}
SearchDomains ==
    {None,
     Some(<<"*", ".", "e", "x", "a", "m", "p", "l", "e", ".", "c", "o", "m">>),
     Some(<<"a", "_", "i", "%">>)}

SearchContexts == {0, 1}

SearchNext ==
    \/ \E k \in SearchKeywords, si \in SearchIns, l \in SearchLimits :
          Search(k, si, None, None, 150, l)
    \/ \E k \in {KwToken, HJson}, m \in SearchMethods, d \in SearchDomains :
          Search(k, Some(<<"url", "request_headers">>), m, d, 1, 1)
    \/ \E c \in SearchContexts, l \in {-1, 1} :
          Search(HJson, Some(<<"request_headers">>), None, None, c, l)
    \/ \E k \in SearchKeywords, si \in {None, Some(<<>>)} :
          TrafficSearch(k, si, None, None, 150, QueryMaxLimit)

SearchSpec == SearchInit /\ [][SearchNext]_vars

\* ======================================================================
\* infer_resource_type (InferSpec)
\* ======================================================================

\* s.startswith(prefix).
StartsWith(s, prefix) ==
    Len(prefix) <= Len(s) /\ SubSeq(s, 1, Len(prefix)) = prefix

\* sub in s.
HasText(s, sub) == Find(s, sub) >= 0

\* The offset of the first character of s that is in cs, Len(s) for none.
FirstOf(s, cs) ==
    IF \E i \in 1..Len(s) : s[i] \in cs
    THEN (CHOOSE i \in 1..Len(s) : s[i] \in cs /\ \A j \in 1..(i - 1) : s[j] \notin cs) - 1
    ELSE Len(s)

\* The offset of the last occurrence of c in s, -1 for none.
LastOf(s, c) ==
    IF \E i \in 1..Len(s) : s[i] = c
    THEN (CHOOSE i \in 1..Len(s) : s[i] = c /\ \A j \in (i + 1)..Len(s) : s[j] # c) - 1
    ELSE -1

\* _clean_mime_type: the part before the first ";", stripped.
CleanMimeType(mime_type) ==
    IF mime_type = <<>> THEN <<>> ELSE Strip(Split(mime_type, ";")[1])

\* urlparse(url).path for the urls of the model, which are a path or
\* scheme://host followed by one, with a query and a fragment or without:
\* what follows the host up to the first "?" or "#".
UrlPath(url) ==
    LET sep  == Find(url, <<":", "/", "/">>)
        rest == IF sep >= 0 THEN SubSeq(url, sep + 4, Len(url)) ELSE url
        from == IF sep >= 0 THEN FirstOf(rest, {"/", "?", "#"}) ELSE 0
        tail == SubSeq(rest, from + 1, Len(rest))
    IN  SubSeq(tail, 1, FirstOf(tail, {"?", "#"}))

\* The longest extension, dot included, that _get_extension keeps.
MaxExtension == 6

\* _get_extension.
GetExtension(url) ==
    LET path == UrlPath(url)
        dot  == LastOf(path, ".")
        ext  == Lower(SubSeq(path, dot + 1, Len(path)))
    IN  IF dot >= 0 /\ Len(ext) <= MaxExtension THEN ext ELSE <<>>

\* headers.get(name, headers.get(lower, "")).
HeaderGet(headers, name, lower) ==
    IF name \in DOMAIN headers THEN headers[name]
    ELSE IF lower \in DOMAIN headers THEN headers[lower]
    ELSE <<>>

HUpgrade == <<"U", "p", "g", "r", "a", "d", "e">>
HUpgradeLower == <<"u", "p", "g", "r", "a", "d", "e">>
HRequestedWith == <<"X", "-", "R", "e", "q", "u", "e", "s", "t", "e", "d", "-", "W", "i", "t", "h">>
HRequestedWithLower == <<"x", "-", "r", "e", "q", "u", "e", "s", "t", "e", "d", "-", "w", "i", "t", "h">>
VWebsocket == <<"w", "e", "b", "s", "o", "c", "k", "e", "t">>
VXmlHttpRequest == <<"x", "m", "l", "h", "t", "t", "p", "r", "e", "q", "u", "e", "s", "t">>

DocumentExtensions ==
    {<<".", "h", "t", "m", "l">>,
     <<".", "h", "t", "m">>,
     <<".", "a", "s", "p">>,
     <<".", "p", "h", "p">>,
     <<".", "j", "s", "p">>}
StylesheetExtensions == {<<".", "c", "s", "s">>}
ImageExtensions ==
    {<<".", "j", "p", "g">>,
     <<".", "j", "p", "e", "g">>,
     <<".", "p", "n", "g">>,
     <<".", "g", "i", "f">>,
     <<".", "s", "v", "g">>,
     <<".", "w", "e", "b", "p">>,
     <<".", "i", "c", "o">>,
     <<".", "b", "m", "p">>}
MediaExtensions ==
    {<<".", "m", "p", "4">>,
     <<".", "m", "p", "3">>,
     <<".", "w", "e", "b", "m">>,
     <<".", "o", "g", "g">>,
     <<".", "w", "a", "v">>,
     <<".", "m", "4", "a">>,
     <<".", "a", "v", "i">>,
     <<".", "m", "o", "v">>}
FontExtensions ==
    {<<".", "w", "o", "f", "f">>,
     <<".", "w", "o", "f", "f", "2">>,
     <<".", "t", "t", "f">>,
     <<".", "o", "t", "f">>,
     <<".", "e", "o", "t">>}
ScriptExtensions ==
    {<<".", "j", "s">>,
     <<".", "m", "j", "s">>,
     <<".", "j", "s", "x">>,
     <<".", "t", "s">>,
     <<".", "t", "s", "x">>}
XhrExtensions == {<<".", "j", "s", "o", "n">>,
                  <<".", "x", "m", "l">>}
XhrMimeTypes ==
    {<<"a", "p", "p", "l", "i", "c", "a", "t", "i", "o", "n", "/", "j", "s", "o", "n">>,
     <<"a", "p", "p", "l", "i", "c", "a", "t", "i", "o", "n", "/", "x", "m", "l">>,
     <<"t", "e", "x", "t", "/", "x", "m", "l">>,
     <<"t", "e", "x", "t", "/", "j", "s", "o", "n">>}

\* infer_resource_type(mime_type, url, headers).
InferResourceType(mime_type, url, headers) ==
    LET mime_lower == Lower(CleanMimeType(mime_type))
        ext        == GetExtension(url)
    IN  IF Lower(HeaderGet(headers, HUpgrade, HUpgradeLower)) = VWebsocket
        THEN "WebSocket"
        ELSE IF Lower(HeaderGet(headers, HRequestedWith, HRequestedWithLower)) = VXmlHttpRequest
        THEN "XHR"
        ELSE IF HasText(mime_lower, <<"t", "e", "x", "t", "/", "h", "t", "m", "l">>) \/ ext \in DocumentExtensions
        THEN "Document"
        ELSE IF HasText(mime_lower, <<"t", "e", "x", "t", "/", "c", "s", "s">>) \/ ext \in StylesheetExtensions
        THEN "Stylesheet"
        ELSE IF StartsWith(mime_lower, <<"i", "m", "a", "g", "e", "/">>) \/ ext \in ImageExtensions
        THEN "Image"
        ELSE IF \/ StartsWith(mime_lower, <<"a", "u", "d", "i", "o", "/">>)
                \/ StartsWith(mime_lower, <<"v", "i", "d", "e", "o", "/">>)
                \/ ext \in MediaExtensions
        THEN "Media"
        ELSE IF HasText(mime_lower, <<"f", "o", "n", "t">>) \/ ext \in FontExtensions
        THEN "Font"
        ELSE IF \/ HasText(mime_lower, <<"j", "a", "v", "a", "s", "c", "r", "i", "p", "t">>)
                \/ HasText(mime_lower, <<"e", "c", "m", "a", "s", "c", "r", "i", "p", "t">>)
                \/ ext \in ScriptExtensions
        THEN "Script"
        ELSE IF mime_lower \in XhrMimeTypes \/ ext \in XhrExtensions
        THEN "XHR"
        ELSE IF /\ StartsWith(mime_lower, <<"a", "p", "p", "l", "i", "c", "a", "t", "i", "o", "n", "/">>)
                /\ ~HasText(mime_lower, <<"o", "c", "t", "e", "t", "-", "s", "t", "r", "e", "a", "m">>)
        THEN "XHR"
        ELSE "Other"

\* The content types, urls and headers infer_resource_type is called with.
InferMimeTypes ==
    {<<>>,
     <<"t", "e", "x", "t", "/", "h", "t", "m", "l">>,
     <<"t", "e", "x", "t", "/", "h", "t", "m", "l", ";", " ", "c", "h", "a", "r", "s", "e", "t", "=", "u", "t", "f", "-", "8">>,
     <<"T", "E", "X", "T", "/", "H", "T", "M", "L">>,
     <<"t", "e", "x", "t", "/", "c", "s", "s">>,
     <<"i", "m", "a", "g", "e", "/", "p", "n", "g">>,
     <<"v", "i", "d", "e", "o", "/", "m", "p", "4">>,
     <<"f", "o", "n", "t", "/", "w", "o", "f", "f", "2">>,
     <<"a", "p", "p", "l", "i", "c", "a", "t", "i", "o", "n", "/", "j", "a", "v", "a", "s", "c", "r", "i", "p", "t">>,
     <<"a", "p", "p", "l", "i", "c", "a", "t", "i", "o", "n", "/", "j", "s", "o", "n">>,
     <<"a", "p", "p", "l", "i", "c", "a", "t", "i", "o", "n", "/", "o", "c", "t", "e", "t", "-", "s", "t", "r", "e", "a", "m">>,
     <<"a", "p", "p", "l", "i", "c", "a", "t", "i", "o", "n", "/", "p", "d", "f">>,
     <<"t", "e", "x", "t", "/", "p", "l", "a", "i", "n">>,
     <<"a", "p", "p", "l", "i", "c", "a", "t", "i", "o", "n", "/", "x", "h", "t", "m", "l", "+", "x", "m", "l">>,
     <<" ", "t", "e", "x", "t", "/", "x", "m", "l", " ", ";", "q", "=", "1">>}

InferUrls ==
    {<<"/", "i", "n", "d", "e", "x", ".", "h", "t", "m", "l">>,
     <<"/", "p", "a", "g", "e">>,
     <<"/", "l", "o", "g", "o", ".", "p", "n", "g">>,
     <<"/", "a", "p", "p", ".", "j", "s">>,
     <<"/", "s", "t", "y", "l", "e", ".", "c", "s", "s">>,
     <<"/", "f", "o", "n", "t", ".", "t", "t", "f">>,
     <<"/", "v", ".", "m", "p", "4">>,
     <<"/", "d", "a", "t", "a", ".", "j", "s", "o", "n">>,
     <<"/", "f", "i", "l", "e", ".", "b", "i", "n">>,
     <<"/", "x", "?", "f", "=", "a", ".", "p", "n", "g">>,
     <<"h", "t", "t", "p", ":", "/", "/", "e", "x", "a", "m", "p", "l", "e", ".", "c", "o", "m">>,
     <<"h", "t", "t", "p", ":", "/", "/", "e", "x", "a", "m", "p", "l", "e", ".", "c", "o", "m", "/", "a", ".", "c", "s", "s", "#", "x", ".", "j", "s">>,
     <<"/", "a", ".", "v", "e", "r", "y", "l", "o", "n", "g">>,
     <<"/", "P", "H", "O", "T", "O", ".", "J", "P", "G">>,
     <<"/", "a", ".", "b", "/", "c">>,
     <<"/", "w", "s">>}

InferHeaders ==
    {EmptyDict,
     (<<"U", "p", "g", "r", "a", "d", "e">> :> <<"w", "e", "b", "s", "o", "c", "k", "e", "t">>),
     (<<"u", "p", "g", "r", "a", "d", "e">> :> <<"W", "e", "b", "S", "o", "c", "k", "e", "t">>),
     (<<"U", "P", "G", "R", "A", "D", "E">> :> <<"w", "e", "b", "s", "o", "c", "k", "e", "t">>),
     (<<"X", "-", "R", "e", "q", "u", "e", "s", "t", "e", "d", "-", "W", "i", "t", "h">> :> <<"X", "M", "L", "H", "t", "t", "p", "R", "e", "q", "u", "e", "s", "t">>),
     (<<"x", "-", "r", "e", "q", "u", "e", "s", "t", "e", "d", "-", "w", "i", "t", "h">> :> <<"x", "m", "l", "h", "t", "t", "p", "r", "e", "q", "u", "e", "s", "t">>),
     (<<"X", "-", "r", "e", "q", "u", "e", "s", "t", "e", "d", "-", "w", "i", "t", "h">> :> <<"X", "M", "L", "H", "t", "t", "p", "R", "e", "q", "u", "e", "s", "t">>),
     (<<"U", "p", "g", "r", "a", "d", "e">> :> <<"h", "2", "c">>) @@ (<<"u", "p", "g", "r", "a", "d", "e">> :> <<"w", "e", "b", "s", "o", "c", "k", "e", "t">>),
     (<<"U", "p", "g", "r", "a", "d", "e">> :> <<"w", "e", "b", "s", "o", "c", "k", "e", "t">>) @@ (<<"X", "-", "R", "e", "q", "u", "e", "s", "t", "e", "d", "-", "W", "i", "t", "h">> :> <<"X", "M", "L", "H", "t", "t", "p", "R", "e", "q", "u", "e", "s", "t">>),
     (<<"U", "p", "g", "r", "a", "d", "e">> :> <<"h", "2", "c">>)}

\* The arguments of a call about to be made.
Input(args) == Call("input", args, <<>>)

\* infer_resource_type is about to be called with a content type, a url
\* and headers.
InferInit ==
    /\ exists = FALSE
    /\ db = {}
    /\ \E m \in InferMimeTypes, u \in InferUrls, h \in InferHeaders :
          last = Input(<<m, u, h>>)
    /\ added = FreshRun
    /\ InitThreads

\* The call of infer_resource_type.
Infer ==
    /\ last.op = "input"
    /\ last' = Call("infer_resource_type", last.args,
                    InferResourceType(last.args[1], last.args[2], last.args[3]))
    /\ UNCHANGED <<exists, db, added, threadVars, counter>>

InferNext == Infer

InferSpec == InferInit /\ [][InferNext]_vars

\* ======================================================================
\* encode_body (EncodeSpec)
\* ======================================================================

RECURSIVE StripChar(_, _)
\* s.strip(c) for a character c.
StripChar(s, c) ==
    IF s # <<>> /\ s[1] = c THEN StripChar(Tail(s), c)
    ELSE IF s # <<>> /\ s[Len(s)] = c THEN StripChar(SubSeq(s, 1, Len(s) - 1), c)
    ELSE s

\* BINARY_MIME_PREFIXES.
BinaryMimePrefixes ==
    {<<"i", "m", "a", "g", "e", "/">>,
     <<"a", "u", "d", "i", "o", "/">>,
     <<"v", "i", "d", "e", "o", "/">>,
     <<"a", "p", "p", "l", "i", "c", "a", "t", "i", "o", "n", "/", "o", "c", "t", "e", "t", "-", "s", "t", "r", "e", "a", "m">>,
     <<"a", "p", "p", "l", "i", "c", "a", "t", "i", "o", "n", "/", "z", "i", "p">>,
     <<"a", "p", "p", "l", "i", "c", "a", "t", "i", "o", "n", "/", "g", "z", "i", "p">>,
     <<"a", "p", "p", "l", "i", "c", "a", "t", "i", "o", "n", "/", "x", "-", "g", "z", "i", "p">>,
     <<"a", "p", "p", "l", "i", "c", "a", "t", "i", "o", "n", "/", "x", "-", "t", "a", "r">>,
     <<"a", "p", "p", "l", "i", "c", "a", "t", "i", "o", "n", "/", "p", "d", "f">>,
     <<"a", "p", "p", "l", "i", "c", "a", "t", "i", "o", "n", "/", "x", "-", "p", "r", "o", "t", "o", "b", "u", "f">>,
     <<"a", "p", "p", "l", "i", "c", "a", "t", "i", "o", "n", "/", "p", "r", "o", "t", "o", "b", "u", "f">>,
     <<"a", "p", "p", "l", "i", "c", "a", "t", "i", "o", "n", "/", "g", "r", "p", "c">>}

\* TEXT_MIME_PREFIXES.
TextMimePrefixes ==
    {<<"t", "e", "x", "t", "/">>,
     <<"a", "p", "p", "l", "i", "c", "a", "t", "i", "o", "n", "/", "j", "s", "o", "n">>,
     <<"a", "p", "p", "l", "i", "c", "a", "t", "i", "o", "n", "/", "x", "m", "l">>,
     <<"a", "p", "p", "l", "i", "c", "a", "t", "i", "o", "n", "/", "j", "a", "v", "a", "s", "c", "r", "i", "p", "t">>,
     <<"a", "p", "p", "l", "i", "c", "a", "t", "i", "o", "n", "/", "x", "-", "j", "a", "v", "a", "s", "c", "r", "i", "p", "t">>,
     <<"a", "p", "p", "l", "i", "c", "a", "t", "i", "o", "n", "/", "e", "c", "m", "a", "s", "c", "r", "i", "p", "t">>}

\* The bytes that count as not printable: below 32 and none of tab,
\* newline and carriage return.
NonPrintable(byte) == byte < 32 /\ byte \notin {9, 10, 13}

\* _contains_binary_markers: a null byte in the first 8192 bytes, or more
\* than 10% of them not printable.
ContainsBinaryMarkers(data) ==
    LET sample == SubSeq(data, 1, Min(Len(data), 8192))
        non_printable == Cardinality({i \in 1..Len(sample) : NonPrintable(sample[i])})
    IN  \/ \E i \in 1..Len(sample) : sample[i] = 0
        \/ Len(sample) > 0 /\ non_printable * 10 > Len(sample)

\* is_binary_content(data, content_type).
IsBinaryContent(data, content_type) ==
    LET ct == Strip(Split(Lower(content_type), ";")[1])
    IN  IF data = <<>> THEN FALSE
        ELSE IF \E prefix \in BinaryMimePrefixes : StartsWith(ct, prefix) THEN TRUE
        ELSE IF \E prefix \in TextMimePrefixes : StartsWith(ct, prefix)
        THEN ContainsBinaryMarkers(data)
        ELSE ContainsBinaryMarkers(data)

\* "charset="
CharsetKey == <<"c", "h", "a", "r", "s", "e", "t", "=">>

\* _extract_charset: None, or the text after "charset=" of the first
\* parameter that begins with it, stripped of blanks and quotes.
ExtractCharset(content_type) ==
    LET lower == Lower(content_type)
        parts == Split(lower, ";")
        isSet(i) == StartsWith(Strip(parts[i]), CharsetKey)
    IN  IF content_type = <<>> \/ ~HasText(lower, CharsetKey) THEN None
        ELSE IF \E i \in 1..Len(parts) : isSet(i)
        THEN LET i == CHOOSE k \in 1..Len(parts) : isSet(k) /\ \A j \in 1..(k - 1) : ~isSet(j)
                 part == Strip(parts[i])
             IN  Some(StripChar(StripChar(Strip(SubSeq(part, 9, Len(part))), "\""), "'"))
        ELSE None

\* The code of the i-th character of the base64 alphabet: A-Z, a-z, 0-9,
\* "+" and "/".
B64Char(i) ==
    IF i < 26 THEN 65 + i
    ELSE IF i < 52 THEN 71 + i
    ELSE IF i < 62 THEN i - 4
    ELSE IF i = 62 THEN 43 ELSE 47

RECURSIVE B64Encode(_)
\* base64.b64encode(data).decode("ascii"), as the codes of its characters;
\* 61 is the code of the padding "=".
B64Encode(data) ==
    IF Len(data) = 0 THEN <<>>
    ELSE IF Len(data) = 1
    THEN <<B64Char(data[1] \div 4), B64Char((data[1] % 4) * 16), 61, 61>>
    ELSE IF Len(data) = 2
    THEN <<B64Char(data[1] \div 4),
           B64Char((data[1] % 4) * 16 + data[2] \div 16),
           B64Char((data[2] % 16) * 4), 61>>
    ELSE <<B64Char(data[1] \div 4),
           B64Char((data[1] % 4) * 16 + data[2] \div 16),
           B64Char((data[2] % 16) * 4 + data[3] \div 64),
           B64Char(data[3] % 64)>> \o B64Encode(SubSeq(data, 4, Len(data)))

\* The two-byte sequences of GBK the bodies of the model hold, and the
\* characters they decode to.
GbkPairs == (<<196, 227>> :> 20320) @@ (<<186, 195>> :> 22909)

RECURSIVE GbkValid(_)
\* Whether decode("gbk") takes the bytes, for bodies of ASCII bytes, the
\* pairs of GbkPairs and sequences GBK does not have.
GbkValid(b) ==
    IF Len(b) = 0 THEN TRUE
    ELSE IF b[1] < 128 THEN GbkValid(Tail(b))
    ELSE Len(b) >= 2 /\ <<b[1], b[2]>> \in DOMAIN GbkPairs /\ GbkValid(Tail(Tail(b)))

RECURSIVE GbkChars(_)
GbkChars(b) ==
    IF Len(b) = 0 THEN <<>>
    ELSE IF b[1] < 128 THEN <<b[1]>> \o GbkChars(Tail(b))
    ELSE <<GbkPairs[<<b[1], b[2]>>]>> \o GbkChars(Tail(Tail(b)))

\* The names of codecs: "utf-8", "gbk", "ascii", "latin-1", "undefined".
CodecUtf8 == <<"u", "t", "f", "-", "8">>
CodecGbk == <<"g", "b", "k">>
CodecAscii == <<"a", "s", "c", "i", "i">>
CodecLatin1 == <<"l", "a", "t", "i", "n", "-", "1">>
CodecUndefined == <<"u", "n", "d", "e", "f", "i", "n", "e", "d">>

\* data.decode(charset): the text, or the exception raised.  "undefined" is
\* the codec of the standard library that raises UnicodeError on every use;
\* a name no codec has raises LookupError.
DecodeWith(data, charset) ==
    IF charset = CodecUtf8
    THEN IF Utf8Valid(data) THEN [exc |-> "", text |-> Utf8Chars(data)]
         ELSE [exc |-> "UnicodeDecodeError", text |-> <<>>]
    ELSE IF charset = CodecGbk
    THEN IF GbkValid(data) THEN [exc |-> "", text |-> GbkChars(data)]
         ELSE [exc |-> "UnicodeDecodeError", text |-> <<>>]
    ELSE IF charset = CodecAscii
    THEN IF \A i \in 1..Len(data) : data[i] < 128 THEN [exc |-> "", text |-> data]
         ELSE [exc |-> "UnicodeDecodeError", text |-> <<>>]
    ELSE IF charset = CodecLatin1 THEN [exc |-> "", text |-> data]
    ELSE IF charset = CodecUndefined THEN [exc |-> "UnicodeError", text |-> <<>>]
    ELSE [exc |-> "LookupError", text |-> <<>>]

\* encode_body(data, content_type): the text, as the codes of its
\* characters, and whether it is base64; or the exception that leaves it.
EncodeBody(data, content_type) ==
    LET utf8    == DecodeWith(data, CodecUtf8)
        charset == ExtractCharset(content_type)
        named   == DecodeWith(data, charset[1])
        latin1  == DecodeWith(data, CodecLatin1)
    IN  IF data = <<>> THEN [exc |-> "", text |-> <<>>, is_base64 |-> FALSE]
        ELSE IF IsBinaryContent(data, content_type)
        THEN [exc |-> "", text |-> B64Encode(data), is_base64 |-> TRUE]
        ELSE IF utf8.exc = ""
        THEN [exc |-> "", text |-> utf8.text, is_base64 |-> FALSE]
        ELSE IF Truthy(charset) /\ named.exc = ""
        THEN [exc |-> "", text |-> named.text, is_base64 |-> FALSE]
        ELSE IF Truthy(charset) /\ named.exc \notin {"UnicodeDecodeError", "LookupError"}
        THEN [exc |-> named.exc, text |-> <<>>, is_base64 |-> FALSE]
        ELSE [exc |-> "", text |-> latin1.text, is_base64 |-> FALSE]

\* The payloads and content types encode_body is called with.
EncodeData ==
    {<<>>,
     <<104, 105>>,
     <<137, 80, 78, 71, 13, 10, 26, 10>>,
     <<0, 97>>,
     <<1, 97, 98, 99, 100, 101, 102, 103, 104, 105>>,
     <<1, 97, 98, 99, 100, 101, 102, 103, 104>>,
     <<224, 225, 226>>,
     <<196, 227, 186, 195>>,
     <<195, 169>>,
     <<255, 254>>,
     <<1, 2, 97, 98>>,
     <<97, 9, 98, 13, 10>>,
     <<196, 227, 186>>,
     <<97, 98, 99, 100>>,
     <<97, 98, 99, 100, 101>>}

EncodeContentTypes ==
    {<<>>,
     <<"t", "e", "x", "t", "/", "p", "l", "a", "i", "n">>,
     <<"t", "e", "x", "t", "/", "p", "l", "a", "i", "n", ";", " ", "c", "h", "a", "r", "s", "e", "t", "=", "u", "t", "f", "-", "8">>,
     <<"t", "e", "x", "t", "/", "p", "l", "a", "i", "n", ";", " ", "c", "h", "a", "r", "s", "e", "t", "=", "g", "b", "k">>,
     <<"T", "E", "X", "T", "/", "P", "L", "A", "I", "N", ";", " ", "C", "h", "a", "r", "s", "e", "t", "=", "G", "B", "K">>,
     <<"t", "e", "x", "t", "/", "p", "l", "a", "i", "n", ";", " ", "c", "h", "a", "r", "s", "e", "t", "=", "u", "n", "d", "e", "f", "i", "n", "e", "d">>,
     <<"t", "e", "x", "t", "/", "p", "l", "a", "i", "n", ";", " ", "c", "h", "a", "r", "s", "e", "t", "=", "n", "o", "p", "e">>,
     <<"t", "e", "x", "t", "/", "p", "l", "a", "i", "n", ";", " ", "c", "h", "a", "r", "s", "e", "t", "=", "\"", "l", "a", "t", "i", "n", "-", "1", "\"">>,
     <<"t", "e", "x", "t", "/", "p", "l", "a", "i", "n", ";", " ", "c", "h", "a", "r", "s", "e", "t", "=", "a", "s", "c", "i", "i">>,
     <<"i", "m", "a", "g", "e", "/", "p", "n", "g">>,
     <<"I", "M", "A", "G", "E", "/", "P", "N", "G", ";", " ", "q", "=", "1">>,
     <<"a", "p", "p", "l", "i", "c", "a", "t", "i", "o", "n", "/", "j", "s", "o", "n">>,
     <<"a", "p", "p", "l", "i", "c", "a", "t", "i", "o", "n", "/", "p", "d", "f">>,
     <<"a", "p", "p", "l", "i", "c", "a", "t", "i", "o", "n", "/", "x", "-", "t", "h", "i", "n", "g">>,
     <<"t", "e", "x", "t", "/", "p", "l", "a", "i", "n", ";", " ", "c", "h", "a", "r", "s", "e", "t", "=">>}

\* encode_body is about to be called with a payload and a content type.
EncodeInit ==
    /\ exists = FALSE
    /\ db = {}
    /\ \E data \in EncodeData, ct \in EncodeContentTypes : last = Input(<<data, ct>>)
    /\ added = FreshRun
    /\ InitThreads

\* The call of encode_body.
Encode ==
    /\ last.op = "input"
    /\ LET r == EncodeBody(last.args[1], last.args[2])
       IN  last' = IF r.exc # "" THEN Raise("encode_body", last.args, r.exc)
                   ELSE Call("encode_body", last.args,
                             [text |-> r.text, is_base64 |-> r.is_base64])
    /\ UNCHANGED <<exists, db, added, threadVars, counter>>

\* The call of is_binary_content.
IsBinary ==
    /\ last.op = "input"
    /\ last' = Call("is_binary_content", last.args,
                    IsBinaryContent(last.args[1], last.args[2]))
    /\ UNCHANGED <<exists, db, added, threadVars, counter>>

EncodeNext == Encode \/ IsBinary

EncodeSpec == EncodeInit /\ [][EncodeNext]_vars

\* ======================================================================
\* The capture process (CaptureSpec)
\* ======================================================================

\* "content-type", "application/json"
HContentType == <<"c", "o", "n", "t", "e", "n", "t", "-", "t", "y", "p", "e">>
MimeJson == <<"a", "p", "p", "l", "i", "c", "a", "t", "i", "o", "n", "/", "j", "s", "o", "n">>

\* flow.response.headers.get("content-type", ""): the lookup of mitmproxy's
\* headers takes the name in any letter case.
HookContentType(headers) ==
    IF \E k \in DOMAIN headers : Lower(k) = HContentType
    THEN headers[CHOOSE k \in DOMAIN headers : Lower(k) = HContentType]
    ELSE <<>>

\* The resource type the response hook works out from the content type.
HookResourceType(content_type) ==
    IF HasText(content_type, <<"j", "s", "o", "n">>) \/ HasText(content_type, <<"x", "m", "l">>)
    THEN TypeXhr
    ELSE IF HasText(content_type, <<"h", "t", "m", "l">>) THEN <<"D", "o", "c", "u", "m", "e", "n", "t">>
    ELSE IF HasText(content_type, <<"i", "m", "a", "g", "e">>) THEN TypeImage
    ELSE IF HasText(content_type, <<"j", "a", "v", "a", "s", "c", "r", "i", "p", "t">>) THEN <<"S", "c", "r", "i", "p", "t">>
    ELSE IF HasText(content_type, <<"c", "s", "s">>) THEN <<"S", "t", "y", "l", "e", "s", "h", "e", "e", "t">>
    ELSE TypeOther

\* The transactions the capture process sees: one answered with a content
\* type, one without.
CapturePayloads ==
    {[PayloadA EXCEPT !.response_headers = (HContentType :> MimeJson)], PayloadB}

\* The row the response hook binds to its INSERT for the transaction p
\* seen as the n-th at time ts: timing is not among its columns and
\* request_body_size takes the column's default.
HookRow(n, ts, p) ==
    [id |-> n, timestamp |-> ts,
     method |-> p.method, url |-> p.url, domain |-> p.domain,
     status |-> p.status,
     resource_type |-> HookResourceType(HookContentType(p.response_headers)),
     size |-> IF p.response_body # None THEN Len(p.response_body[1]) ELSE 0,
     time_ms |-> p.time_ms,
     request_headers |-> Some(JsonDumps(p.request_headers)),
     request_body |-> p.request_body,
     request_body_size |-> Some(0),
     response_headers |-> Some(JsonDumps(p.response_headers)),
     response_body |-> p.response_body,
     timing |-> None,
     error |-> None]

\* The capture process was started: the store is there and empty.
CaptureInit ==
    /\ exists = TRUE
    /\ db = {}
    /\ last = Step
    /\ added = FreshRun
    /\ InitThreads

\* response(flow) of the capture script: the counter goes up, and the row
\* is written with INSERT OR REPLACE and committed; nothing else follows.
CaptureResponse(p, ts) ==
    /\ exists
    /\ counter < MaxCaptured
    /\ counter' = counter + 1
    /\ db' = InsertOrReplace(db, HookRow(counter + 1, ts, p))
    /\ last' = Call("response", <<counter + 1, ts, p>>, <<>>)
    /\ UNCHANGED <<exists, added, threadVars>>

CaptureNext ==
    \/ \E p \in CapturePayloads, ts \in Timestamps : CaptureResponse(p, ts)
    \/ CaptureStart
    \/ StoreLen
    \/ \E id \in 1..MaxCaptured : GetById(id)
    \/ TrafficList(QueryMaxLimit, 0, NoFilters)
    \/ TrafficClear

CaptureSpec == CaptureInit /\ [][CaptureNext]_vars

\* ======================================================================
\* query page after page (PageSpec)
\* ======================================================================

RECURSIVE PagesFrom(_, _, _, _)
\* query called with the filters f at offset, offset + 10, ... until a page
\* has fewer than 10 records, on rows nothing writes to meanwhile: the
\* records of the pages put together, for every order each SELECT may give.
PagesFrom(rows, f, offset, got) ==
    UNION {IF PageRaises(page)
           THEN {[exc |-> "JSONDecodeError", records |-> got]}
           ELSE IF Len(page) < QueryMaxLimit
           THEN {[exc |-> "", records |-> got \o PageRecords(page)]}
           ELSE PagesFrom(rows, f, offset + QueryMaxLimit, got \o PageRecords(page))
           : page \in QueryPages(rows, QueryMaxLimit, offset, f)}

\* A caller pages through query with the filters f.
QueryAllPages(f) ==
    /\ exists
    /\ StatusCondition(f).kind # "raise"
    /\ \E o \in PagesFrom(db, f, 0, <<>>) :
          last' = IF o.exc # ""
                  THEN Raise("query_pages", <<f>>, o.exc)
                  ELSE Call("query_pages", <<f>>, o.records)
    /\ UNCHANGED <<exists, db, added, threadVars, counter>>

\* The filters the pages are asked with: none, two every record of the
\* store matches, and one no record matches.
PageFilters ==
    {NoFilters,
     Filters(Some(DomainApi), None, None, None),
     Filters(None, Some(TypeXhr), Some(<<"2", "x", "x">>), None),
     Filters(Some(DomainBare), None, None, None)}

PageOffsets == {0, QueryMaxLimit, 2 * QueryMaxLimit}

PageNext ==
    \/ \E f \in PageFilters : QueryAllPages(f)
    \/ \E o \in PageOffsets, f \in PageFilters : Query(QueryMaxLimit, o, f)

PageSpec == QueryInit /\ [][PageNext]_vars

\* ======================================================================
\* Properties of calls issued one at a time (Spec)
\* ======================================================================

StoredIds(rows) == {x.id : x \in rows}

LastRecord == last.args[1]

\* C1: through one store, with add and clear issued one at a time, after
\* every add that has returned count() equals the number of distinct ids
\* present and is at most maxSize.
C1_CountIsDistinctIdsWithinMaxSize ==
    last.op = "add" =>
        /\ CountRows(db) = Cardinality(StoredIds(db))
        /\ CountRows(db) <= MaxSize

\* An add of a new id into a full store has returned.
C1_Witness ==
    /\ last.op = "add"
    /\ CountRows(last.before) = MaxSize
    /\ LastRecord.id \notin StoredIds(last.before)
    /\ CountRows(db) = MaxSize

\* The k records of greatest timestamp.
TopRecords(recs, k) ==
    {r \in recs : Cardinality({q \in recs : q.timestamp > r.timestamp}) < k}

\* C2: after n adds of records with pairwise distinct ids and pairwise
\* distinct timestamps, in any order, the store holds exactly the
\* min(n, maxSize) records of greatest timestamp, and every record an add
\* evicted is older than every record that stays.
C2_KeepsNewest ==
    added.ok =>
        /\ db = {ToRow(r) : r \in TopRecords(added.recs, MaxSize)}
        /\ CountRows(db) = Min(Cardinality(added.recs), MaxSize)
        /\ last.op = "add" =>
              \A x \in (last.before \cup {ToRow(LastRecord)}) \ db :
                 \A y \in db : x.timestamp < y.timestamp

\* More than maxSize distinct records were added and the one added last,
\* older than those stored, is the one that went.
C2_Witness ==
    /\ added.ok
    /\ Cardinality(added.recs) > MaxSize
    /\ last.op = "add"
    /\ LastRecord.id \notin StoredIds(db)
    /\ CountRows(db) = MaxSize

ToolOps == {"traffic_list", "traffic_get_detail", "traffic_search",
            "traffic_read_body", "traffic_clear", "proxy_status"}

ReadToolOps == ToolOps \ {"traffic_clear"}

\* C6: a traffic tool called while the backing location does not exist
\* returns the not-started response.
C6_NotStartedWhileAbsent ==
    (last.op \in ToolOps /\ ~last.existed) => last.res.notStarted

\* C7: list, getDetail, search, readBody and status leave the store as it
\* was: the same rows, and the backing location there or not as before.
C7_ReadToolsLeaveStore ==
    last.op \in ReadToolOps => (db = last.before /\ exists = last.existed)

C10_AddThenGetReturnsRecord ==
    last.op = "add" => GetByIdResult(db, LastRecord.id) = Some(LastRecord)

\* The rows add(r) has to evict: those beyond maxSize once r is in.
Excess(rows, r) == Cardinality(StoredIds(rows) \cup {r.id}) - MaxSize

\* The other stored records that are older than r.
OlderOthers(rows, r) ==
    {y \in rows : y.id # r.id /\ y.timestamp < r.timestamp}

\* C10 amended: add(r) followed with no write in between by getById(r.id)
\* returns a record equal to r in every field, or absent; absent only when
\* the add had to evict and no record that stays is older than r, and never
\* when fewer records had to go than other stored records are older than r.
C10_AddThenGetReturnsRecordUnlessEvicted ==
    last.op = "add" =>
        LET got == GetByIdResult(db, LastRecord.id)
        IN  /\ \/ got = Some(LastRecord)
               \/ /\ got = None
                  /\ Excess(last.before, LastRecord) > 0
                  /\ \A y \in db : LastRecord.timestamp <= y.timestamp
            /\ Excess(last.before, LastRecord)
                   <= Cardinality(OlderOthers(last.before, LastRecord))
                 => got = Some(LastRecord)

\* A failed transaction with a request body and an error replaced an
\* answered one and is read back.
C10_Witness ==
    /\ last.op = "add"
    /\ LastRecord.error # None
    /\ LastRecord.request_body # None
    /\ \E x \in last.before : x.id = LastRecord.id /\ x.error = None
    /\ GetByIdResult(db, LastRecord.id) = Some(LastRecord)

\* ======================================================================
\* Properties of interleaved calls (ConcSpec)
\* ======================================================================

\* C3: count() through another connection never returns more than maxSize,
\* also while an add is in progress.
C3_CountNeverExceedsMaxSize ==
    last.op = "len" => last.res <= MaxSize

\* The thread has executed a write statement of its call and the call's
\* last commit is still to come.
InWriteSection(t) ==
    pc[t] \in {"a_inserted", "a_counted", "a_deleted", "c_deleted", "tc_deleted"}

\* C4: at most one add or clear of the process is inside its write section
\* at any time, also when the calls go through different store objects.
C4_OneWriteSectionAtATime ==
    \A t1 \in Threads : \A t2 \in Threads \ {t1} :
        ~(InWriteSection(t1) /\ InWriteSection(t2))

NewestFirst(s) == \A i \in 1..Len(s) : \A j \in i..Len(s) : s[i].timestamp >= s[j].timestamp

\* C8: query(limit=L) returns no more than min(L, 10) records (none for a
\* limit below 0), newest first; so does traffic_list.
C8_QueryAtMostLimitNewestFirst ==
    /\ last.op = "query" =>
          /\ Len(last.res) <= Max(0, Min(last.args[1], QueryMaxLimit))
          /\ NewestFirst(last.res)
    /\ (last.op = "traffic_list" /\ last.res.success) =>
          /\ Len(last.res.requests) <= Max(0, Min(last.args[1], QueryMaxLimit))
          /\ NewestFirst(last.res.requests)

\* ======================================================================
\* Properties of reads of stored rows (StoredSpec)
\* ======================================================================

\* The row with "{}" in place of every column text that is not JSON.
Recovered(row) ==
    [c \in DOMAIN row |->
        IF c \in JsonColumns /\ ~JsonValid(OrEmptyObject(row[c]))
        THEN Some(EmptyObjectText) ELSE row[c]]

\* C11: a stored record whose request_headers, response_headers or timing
\* column holds text that is not valid JSON is returned by getById and by
\* query with an empty mapping for that field: the read does not fail, and
\* query returns the other records of its result as well.
C11_MalformedJsonReadsAsEmpty ==
    /\ last.op = "get_by_id" =>
          /\ last.exc = ""
          /\ \A x \in db : x.id = last.args[1] =>
                last.res = Some(RowToRecord(Recovered(x)))
    /\ last.op = "query" =>
          /\ last.exc = ""
          /\ last.args[1] > CountRows(db) =>
                {last.res[i] : i \in 1..Len(last.res)}
                    = {RowToRecord(Recovered(x)) : x \in db}

\* ======================================================================
\* Properties of the tools under contention (ConcSpec)
\* ======================================================================

\* C12: no traffic tool call raises an exception to its caller: when a
\* store operation fails with a lock timeout, the tool call that triggered
\* it returns a response with success false.
C12_ToolsNeverRaise ==
    last.op \in ToolOps => (last.exc = "" /\ last.res.success \in BOOLEAN)

\* ======================================================================
\* Properties of read_body (BodySpec)
\* ======================================================================

\* The body column the call reads, in the one stored row.
BodyRead(id, field) ==
    LET row == CHOOSE x \in db : x.id = id
    IN  IF field = "request_body" THEN row.request_body ELSE row.response_body

\* The decoded text of a body column: "" for NULL.
BodyText(col) == IF col = None THEN <<>> ELSE Decode(col[1])

\* The characters of text at the positions p with offset <= p < offset + length.
CharsAt(text, offset, length) ==
    [i \in 1..Max(0, Min(offset + length, Len(text)) - offset) |-> text[offset + i]]

\* C13: reading a body that is not modified meanwhile in chunks of any
\* length L >= 1, at offsets 0, L, 2L, ... until a chunk reports has_more
\* false, ends after finitely many calls (no more than one per character,
\* and one for an empty body), and the chunk contents put together are the
\* decoded body text exactly.
C13_ChunksRebuildBody ==
    last.op = "read_whole" =>
        LET text == BodyText(BodyRead(last.args[1], last.args[2]))
        IN  /\ last.res.finished
            /\ last.res.calls <= Max(1, Len(text))
            /\ last.res.text = text

\* A body with a two-byte character was read in more than one chunk, the
\* last of them shorter than the others.
C13_Witness ==
    /\ last.op = "read_whole"
    /\ last.res.finished
    /\ last.res.calls = 2
    /\ last.args[3] = 2
    /\ last.res.text = <<123, 233, 125>>

LastFilters == last.args[3]

\* No filter but f.status is set.
OnlyStatus(f) == f.domain = None /\ f.type = None /\ f.url = None

\* The records the call returned: query's list, traffic_list's summaries.
Returned == IF last.op = "query" THEN last.res ELSE last.res.requests

ReturnedIds == {Returned[i].id : i \in 1..Len(Returned)}

\* A text of decimal digits.
Decimal(t) == t # <<>> /\ \A i \in 1..Len(t) : t[i] \in DOMAIN DigitValue

\* The three forms of a status filter: "S", "Nxx", "A-B".
IsExactForm(t) == Decimal(t)

IsClassForm(t) == Len(t) = 3 /\ Decimal(<<t[1]>>) /\ t[2] = "x" /\ t[3] = "x"

IsRangeForm(t) ==
    \E i \in 1..Len(t) :
        /\ t[i] = "-"
        /\ Decimal(SubSeq(t, 1, i - 1))
        /\ Decimal(SubSeq(t, i + 1, Len(t)))

\* The statuses a status filter of one of the three forms asks for.
StatusRange(t) ==
    IF IsExactForm(t) THEN [lo |-> DecimalValue(t), hi |-> DecimalValue(t)]
    ELSE IF IsClassForm(t)
    THEN [lo |-> DecimalValue(<<t[1]>>) * 100, hi |-> DecimalValue(<<t[1]>>) * 100 + 99]
    ELSE LET i == CHOOSE k \in 1..Len(t) : t[k] = "-"
         IN  [lo |-> DecimalValue(SubSeq(t, 1, i - 1)),
              hi |-> DecimalValue(SubSeq(t, i + 1, Len(t)))]

InRange(status, range) == range.lo <= status /\ status <= range.hi

\* C15: query with filterStatus "Nxx" returns only and all records with
\* N*100 <= status <= N*100+99, with "A-B" only and all records with
\* A <= status <= B, and with a plain integer "S" only and all records with
\* status = S: every record returned has such a status, and with no other
\* filter set every stored record of such a status is returned unless the
\* result is as long as the limit allows; the result is newest first.  The
\* same holds of the summaries traffic_list returns.
C15_StatusFilterForms ==
    (/\ last.op \in {"query", "traffic_list"}
     /\ LastFilters.status # None
     /\ \/ IsExactForm(LastFilters.status[1])
        \/ IsClassForm(LastFilters.status[1])
        \/ IsRangeForm(LastFilters.status[1])) =>
        LET range == StatusRange(LastFilters.status[1])
        IN  /\ last.exc = ""
            /\ \A i \in 1..Len(Returned) : InRange(Returned[i].status, range)
            /\ NewestFirst(Returned)
            /\ Cardinality(ReturnedIds) = Len(Returned)
            /\ OnlyStatus(LastFilters) =>
                 \/ Len(Returned) >= Min(last.args[1], QueryMaxLimit)
                 \/ \A x \in db : InRange(x.status, range) => x.id \in ReturnedIds

\* query with "4xx" on the six transactions returned the two of status 404
\* and 499 and left out those of status 0, 200, 299 and 500.
C15_Witness ==
    /\ last.op = "query"
    /\ LastFilters = Filters(None, None, Some(<<"4", "x", "x">>), None)
    /\ CountRows(db) = Len(FilterPayloads)
    /\ Len(last.res) = 2
    /\ {last.res[i].status : i \in 1..Len(last.res)} = {404, 499}

\* A status filter of none of the three forms, however it is written: in
\* either letter case, with blanks around it or around its numbers, with
\* signed numbers.
Unrecognized(t) ==
    LET pattern == Lower(Strip(t))
        parts   == Split(pattern, "-")
    IN  /\ ~IsExactForm(pattern)
        /\ ~IsClassForm(pattern)
        /\ ~(Len(parts) = 2 /\ IntValid(parts[1]) /\ IntValid(parts[2]))

\* C16: a filterStatus value of none of the three recognized forms never
\* makes query fail: the query returns what the same query without a status
\* filter returns.
C16_UnrecognizedStatusIgnored ==
    (/\ last.op \in {"query", "traffic_list"}
     /\ LastFilters.status # None
     /\ Unrecognized(LastFilters.status[1])) =>
        /\ last.exc = ""
        /\ last.op = "query" =>
             last.res \in {PageRecords(page) :
                             page \in QueryPages(db, last.args[1], last.args[2],
                                                 [LastFilters EXCEPT !.status = None])}

\* No filter but f.url is set.
OnlyUrl(f) == f.domain = None /\ f.type = None /\ f.status = None /\ f.url # None

\* C17: query with filterUrl F returns a record exactly when F occurs in the
\* record's url as a case-sensitive substring (here with a limit that leaves
\* no matching record out).
C17_UrlFilterIsCaseSensitiveSubstring ==
    (/\ last.op = "query"
     /\ OnlyUrl(LastFilters)
     /\ last.args[1] >= CountRows(db)) =>
        /\ last.exc = ""
        /\ ReturnedIds = {x.id : x \in {y \in db : Find(y.url, LastFilters.url[1]) >= 0}}

\* No filter but f.domain is set.
OnlyDomain(f) == f.domain # None /\ f.type = None /\ f.status = None /\ f.url = None

RECURSIVE StarMatch(_, _)
\* text matches pat read with * as zero or more characters and every other
\* character as itself.
StarMatch(pat, text) ==
    IF pat = <<>> THEN text = <<>>
    ELSE IF pat[1] = "*"
         THEN \/ StarMatch(Tail(pat), text)
              \/ text # <<>> /\ StarMatch(pat, Tail(text))
         ELSE /\ text # <<>>
              /\ pat[1] = text[1]
              /\ StarMatch(Tail(pat), Tail(text))

\* C18: query with filterDomain P returns a record exactly when its domain
\* matches P read with * as zero or more characters and every other
\* character literally (here with a limit that leaves no matching record
\* out).
C18_DomainFilterIsStarPattern ==
    (/\ last.op = "query"
     /\ OnlyDomain(LastFilters)
     /\ last.args[1] >= CountRows(db)) =>
        /\ last.exc = ""
        /\ ReturnedIds = {x.id : x \in {y \in db : StarMatch(LastFilters.domain[1], y.domain)}}

\* ======================================================================
\* Properties of search (SearchSpec)
\* ======================================================================

\* keyword occurs in text at offset k, in any letter case.
OccursAt(text, keyword, k) ==
    /\ k + Len(keyword) <= Len(text)
    /\ Lower(SubSeq(text, k + 1, k + Len(keyword))) = Lower(keyword)

\* keyword occurs in text as a case-insensitive substring.
Occurs(text, keyword) == \E k \in 0..Len(text) : OccursAt(text, keyword, k)

\* The stored row a descriptor names.
RowOf(d) == CHOOSE x \in db : x.id = d.request_id

\* The last call was a search that returned.
Searched == last.op = "search" /\ last.exc = ""

SearchKeyword == last.args[1]
SearchLimit == last.args[6]

\* C19: every descriptor search returns names a field in which the keyword
\* occurs as a case-insensitive substring; its match_position is the
\* non-negative offset of the first such occurrence in that field's text and
\* its snippet contains the keyword in some letter case.
C19_DescriptorShowsKeyword ==
    Searched =>
        \A i \in 1..Len(last.res) :
            LET d    == last.res[i]
                text == FieldText(RowOf(d), d.matched_in)[1]
            IN  /\ d.match_position >= 0
                /\ OccursAt(text, SearchKeyword, d.match_position)
                /\ \A j \in 0..(d.match_position - 1) : ~OccursAt(text, SearchKeyword, j)
                /\ Occurs(d.snippet, SearchKeyword)

\* The fields a search_in names, each once.
SearchedFields(search_in) ==
    IF search_in = None \/ Contains(search_in[1], "all")
    THEN {AllSearchFields[i] : i \in 1..Len(AllSearchFields)}
    ELSE {search_in[1][i] : i \in 1..Len(search_in[1])} \cap
         {AllSearchFields[i] : i \in 1..Len(AllSearchFields)}

\* The (record, searched field) pairs in which the keyword occurs, among the
\* records passing the method and domain pre-filters.
MatchingPairs ==
    {p \in db \X SearchedFields(last.args[2]) :
        /\ BasePasses(p[1], last.args[3], last.args[4])
        /\ FieldText(p[1], p[2]) # None
        /\ Occurs(FieldText(p[1], p[2])[1], SearchKeyword)}

\* C20: search with limit N >= 0 returns exactly min(N, M) descriptors, M
\* the number of (record, searched field) pairs in which the keyword
\* matches among the records passing the method and domain pre-filters, and
\* never more than N.
C20_SearchReturnsMinOfLimitAndMatches ==
    (last.op = "search" /\ SearchLimit >= 0) =>
        /\ last.exc = ""
        /\ Len(last.res) = Min(SearchLimit, Cardinality(MatchingPairs))
        /\ Len(last.res) <= SearchLimit

\* The order of the fields when search_in is absent or holds "all".
FixedOrder ==
    <<"url", "request_headers", "request_body", "response_headers", "response_body">>

\* The fields a search_in lists, in its order.
ListedFields(search_in) ==
    IF search_in = None \/ Contains(search_in[1], "all") THEN FixedOrder
    ELSE search_in[1]

\* The first position after p at which fields lists field, 0 for none.
NextListed(fields, field, p) ==
    IF \E q \in (p + 1)..Len(fields) : fields[q] = field
    THEN CHOOSE q \in (p + 1)..Len(fields) :
            fields[q] = field /\ \A r \in (p + 1)..(q - 1) : fields[r] # field
    ELSE 0

RECURSIVE Grouped(_, _, _, _, _)
\* The descriptors ds from the i-th on continue a result whose group in
\* progress is the one of position p of fields and began at descriptor
\* start: a descriptor stays in the group when it has the group's field, a
\* record not yet in the group and a timestamp no later than the one before
\* it, and opens the group of a later position of its field otherwise.
Grouped(ds, fields, i, p, start) ==
    IF i > Len(ds) THEN TRUE
    ELSE LET d     == ds[i]
             stays == /\ p > 0
                      /\ d.matched_in = fields[p]
                      /\ \A j \in start..(i - 1) : ds[j].request_id # d.request_id
                      /\ RowOf(ds[i - 1]).timestamp >= RowOf(d).timestamp
             q     == NextListed(fields, d.matched_in, p)
         IN  IF stays THEN Grouped(ds, fields, i + 1, p, start)
             ELSE q # 0 /\ Grouped(ds, fields, i + 1, q, i)

\* C21: search returns its descriptors grouped by field in the order the
\* fields are listed in search_in (the fixed order when search_in is absent
\* or holds "all"), newest record first within each field; and when the
\* limit was not reached, a record in which the keyword occurs in two
\* searched fields has a descriptor for each of them.
C21_SearchGroupsByFieldNewestFirst ==
    Searched =>
        /\ Grouped(last.res, ListedFields(last.args[2]), 1, 0, 1)
        /\ (SearchLimit >= 0 /\ Len(last.res) < SearchLimit) =>
              \A p \in MatchingPairs :
                 \E i \in 1..Len(last.res) :
                    /\ last.res[i].request_id = p[1].id
                    /\ last.res[i].matched_in = p[2]

\* A search returned descriptors of two fields, two of them of one record
\* and two of one field with a newer record first.
C21_Witness ==
    /\ Searched
    /\ \E i, j \in 1..Len(last.res) :
          /\ i < j
          /\ last.res[i].request_id = last.res[j].request_id
          /\ last.res[i].matched_in # last.res[j].matched_in
    /\ \E i \in 1..(Len(last.res) - 1) :
          /\ last.res[i].matched_in = last.res[i + 1].matched_in
          /\ RowOf(last.res[i]).timestamp > RowOf(last.res[i + 1]).timestamp

\* ======================================================================
\* Further properties of calls issued one at a time (Spec)
\* ======================================================================

\* No add has returned since the store was last emptied.
NothingAddedSince == added = FreshRun

\* C22: clear() leaves count() = 0 from every prior state, an empty store
\* included, and until the next add count() returns 0 and every getById
\* returns absent.
C22_ClearEmptiesUntilNextAdd ==
    /\ last.op = "clear" => CountRows(db) = 0
    /\ (NothingAddedSince /\ last.op = "len") => last.res = 0
    /\ (NothingAddedSince /\ last.op = "get_by_id") =>
          (last.exc = "" /\ last.res = None)

\* A clear of a store that held records has returned.
C22_Witness == last.op = "clear" /\ last.before # {} /\ NothingAddedSince

\* ======================================================================
\* Further properties of concurrent calls (ConcSpec)
\* ======================================================================

\* C23: traffic_clear returns cleared_count equal to the number of records
\* its clear removed from the store, in every interleaving with adds made
\* while it runs.
C23_ClearedCountIsRemoved ==
    (last.op = "traffic_clear" /\ last.exc = "") =>
        last.res.cleared_count = CountRows(last.before)

\* ======================================================================
\* Properties of traffic_list with filters (FilterSpec)
\* ======================================================================

\* The last call was a traffic_list that answered with success.
Listed == last.op = "traffic_list" /\ last.exc = "" /\ last.res.success

\* C24: on an initialized store traffic_list answers success with a field
\* `total` equal to the number of records matching the given filters: 0
\* with no requests on an empty store, and the size of the matching subset
\* under a domain or status filter.
C24_ListReportsTotal ==
    Listed =>
        /\ "total" \in DOMAIN last.res
        /\ last.res.total = Cardinality(Matching(db, LastFilters))
        /\ db = {} => last.res.requests = <<>>

\* ======================================================================
\* Properties of infer_resource_type (InferSpec)
\* ======================================================================

\* The nine tags.
ResourceTypes ==
    {"Document", "Stylesheet", "Image", "Script", "XHR", "Font", "Media",
     "WebSocket", "Other"}

\* headers has a header of this name, in any letter case, whose value is
\* this value, in any letter case.
HeaderNamed(headers, name, value) ==
    \E k \in DOMAIN headers :
        Lower(k) = Lower(name) /\ Lower(headers[k]) = Lower(value)

\* C25: infer_resource_type returns the tag of the first matching rule:
\* WebSocket when a header named Upgrade in any letter case equals
\* websocket case-insensitively, else XHR when a header named
\* X-Requested-With in any letter case equals XMLHttpRequest, else what the
\* content type and the url's extension give; always one of the nine tags.
C25_FirstMatchingRule ==
    last.op = "infer_resource_type" =>
        LET mime_type == last.args[1]
            url       == last.args[2]
            headers   == last.args[3]
            upgrade   == HeaderNamed(headers, HUpgrade, VWebsocket)
            xhr       == HeaderNamed(headers, HRequestedWith, VXmlHttpRequest)
        IN  /\ last.res \in ResourceTypes
            /\ upgrade => last.res = "WebSocket"
            /\ (~upgrade /\ xhr) => last.res = "XHR"
            /\ (~upgrade /\ ~xhr) =>
                  last.res = InferResourceType(mime_type, url, EmptyDict)

\* ======================================================================
\* Properties of encode_body (EncodeSpec)
\* ======================================================================

\* The place in the base64 alphabet of the character of this code.
B64Index(code) == CHOOSE i \in 0..63 : B64Char(i) = code

RECURSIVE B64Decode(_)
\* The bytes a base64 text stands for.
B64Decode(text) ==
    IF Len(text) < 4 THEN <<>>
    ELSE LET a == B64Index(text[1])
             b == B64Index(text[2])
             one == <<a * 4 + b \div 16>>
         IN  IF text[3] = 61 THEN one
             ELSE LET c == B64Index(text[3])
                      two == one \o <<(b % 16) * 16 + c \div 4>>
                  IN  IF text[4] = 61 THEN two
                      ELSE two \o <<(c % 4) * 64 + B64Index(text[4])>> \o
                           B64Decode(SubSeq(text, 5, Len(text)))

\* The texts some codec of the model decodes data to.
DecodedTexts(data) ==
    {DecodeWith(data, c).text :
        c \in {x \in {CodecUtf8, CodecGbk, CodecAscii, CodecLatin1} :
                 DecodeWith(data, x).exc = ""}}

\* C26: encode_body(data, contentType) returns isBinary true exactly when
\* isBinaryContent(data, contentType) holds, and then its text is base64
\* that decodes to data byte for byte; for every other payload, empty data
\* and bytes that are not UTF-8 included, it returns decoded text with
\* isBinary false.
C26_EncodeBodyBase64OrText ==
    last.op = "encode_body" =>
        LET data == last.args[1]
            ct   == last.args[2]
        IN  /\ last.exc = ""
            /\ last.res.is_base64 = IsBinaryContent(data, ct)
            /\ last.res.is_base64 => B64Decode(last.res.text) = data
            /\ ~last.res.is_base64 => last.res.text \in DecodedTexts(data)

\* ======================================================================
\* Properties of the capture process (CaptureSpec)
\* ======================================================================

\* C27: every record the capture process stores goes through the store's
\* insertion with its eviction step: after each captured transaction it has
\* written, the number of stored records is at most maxSize.
C27_CaptureKeepsWithinMaxSize ==
    last.op = "response" => CountRows(db) <= MaxSize

\* ======================================================================
\* Eviction under concurrent adds (ConcSpec)
\* ======================================================================

\* No call is in progress.
AllReturned == \A t \in Threads : pc[t] = "idle"

\* The DELETE of an add's _cleanup takes rows away.
AddDeletes == \E t \in Threads :
    pc[t] = "a_counted" /\ pc'[t] = "a_deleted" /\ txnRows' # db

\* C28: eviction removes only the excess: once the add calls with distinct
\* new ids issued since the last clear have all completed, count() is the
\* smaller of maxSize and the number of ids inserted, and no add deletes a
\* record while the count is at most maxSize.
C28_EvictionRemovesOnlyExcess ==
    /\ [](added.ok /\ AllReturned =>
            CountRows(db) = Min(MaxSize, Cardinality(added.recs)))
    /\ [][AddDeletes => CountRows(db) > MaxSize]_vars

\* ======================================================================
\* Paging through traffic_list and query (FilterSpec, PageSpec)
\* ======================================================================

\* The pages the call of traffic_list just answered may give when it is
\* made again with the offset advanced by `returned`, the store unchanged.
NextPages ==
    QueryPages(db, ClampLimit(last.args[1]), last.args[2] + last.res.returned,
               last.args[3])

\* C29: has_more of traffic_list is true exactly when records matching the
\* filters remain beyond offset + returned: when it is true the same call
\* with the offset advanced by `returned` yields at least one record, and
\* when it is false that call yields none.
C29_HasMoreMeansNextPageNotEmpty ==
    Listed =>
        IF last.res.has_more
        THEN \A page \in NextPages : Len(page) >= 1
        ELSE \A page \in NextPages : Len(page) = 0

\* The caller paged through query and no call raised.
Paged == last.op = "query_pages" /\ last.exc = ""

====
